---- MODULE Spec2Model ----
(***************************************************************************)
(* Account/proxy scheduling and cross-process coordination layer of        *)
(* opencode-antigravity-auth: the in-memory AccountManager (accounts.js),  *)
(* the account store's merge-on-save (storage.ts) and the file-lease       *)
(* reservation table (reservation.ts).                                     *)
(*                                                                         *)
(* Several specifications share the module, one per workload:             *)
(*   SpecAM    one AccountManager instance driven by its callers           *)
(*   SpecMerge mergeAccountStorage applied to two stored states            *)
(*   SpecStore two processes calling saveAccounts on the shared file       *)
(*   SpecRes   two processes using the shared reservation file             *)
(* Each leaves the other subsystems' variables alone.                      *)
(***************************************************************************)
EXTENDS Integers, Sequences, FiniteSets, TLC

VARIABLES
  now,                          \* Date.now(), shared wall clock
  accounts,                     \* AccountManager.accounts
  cursor,                       \* AccountManager.cursor
  currentAccountIndexByFamily,  \* AccountManager.currentAccountIndexByFamily
  sessionOffsetApplied,         \* AccountManager.sessionOffsetApplied
  pid,                          \* process.pid of the AccountManager's process
  last,                         \* the most recent operation and its result
  lastSticky,                   \* history: account returned by the latest sticky selection
  rrRun,                        \* history: accounts returned by consecutive round-robin calls
  hyRun,                        \* history: accounts returned by consecutive hybrid calls
  lastMark,                     \* history: the latest markRateLimited call
  steps,                        \* operations performed so far
  disk,                         \* the accounts file (antigravity-accounts.json)
  lockHolder,                   \* the process holding the file lock, 0 when free
  spc,                          \* per process: where it is in saveAccounts
  incoming,                     \* per process: the storage passed to saveAccounts
  merged,                       \* per process: the storage it is about to write
  loaded,                       \* the most recent loadAccounts call and its result
  tmp,                          \* per process: the temporary file of its saveAccounts
  seen,                         \* what the latest fs.readFile of the accounts file returned
  prior,                        \* history, per process: the accounts file when it began to write
  lck,                          \* the lock of the accounts file as lockfile.lock keeps it
  mergeRun,                     \* mergeAccountStorage applied to a pair, both ways
  resFile,                      \* the reservation file (antigravity-reservations.json)
  resFileStatus,                \* whether that file is missing, unparseable, or JSON
  alive,                        \* per process: whether kill(pid, 0) finds it
  cachedReservations,           \* per process: the module's cachedReservations
  lastReadTime,                 \* per process: the module's lastReadTime
  lastFileRead,                 \* history, per process: when readReservations last read the file
  myReservations,               \* per process: the module's myReservations
  rpend,                        \* per process: the write it has prepared and not yet made
  rlast,                        \* the most recent reservation query and its result
  relHist,                      \* history, per process: indices released, and being released
  proxyStates,                  \* proxy.ts: the module's proxyStates map
  dispatcherCache,              \* proxy.ts: the URLs that have a cached dispatcher
  pcall,                        \* the fetchWithProxy call in progress, or the last one made
  phist                         \* history, per (account, proxy): failures since the last success

amVars == <<accounts, cursor, currentAccountIndexByFamily, sessionOffsetApplied,
            pid, last, lastSticky, rrRun, hyRun, lastMark>>

storeVars == <<disk, lockHolder, spc, incoming, merged, loaded, tmp, seen, prior, lck>>

resVars == <<resFile, resFileStatus, alive, cachedReservations, lastReadTime, lastFileRead,
             myReservations,
             rpend, rlast, relHist>>

proxyVars == <<proxyStates, dispatcherCache, pcall, phist>>

vars == <<now, steps, amVars, storeVars, mergeRun, resVars, proxyVars>>

----------------------------------------------------------------------------
(* Bounds of the model *)

MaxAccounts == 2
MaxSteps == 3

(* Input domains *)
Families == {"claude", "gemini"}
HeaderStyles == {"antigravity", "gemini-cli"}
NoModel == ""
Models == {NoModel, "m1"}
Strategies == {"sticky", "round-robin", "hybrid"}
\* <<family, model, headerStyle>> of the requests the callers make
Requests == {<<"claude", NoModel, "antigravity">>,
             <<"gemini", NoModel, "antigravity">>,
             <<"gemini", NoModel, "gemini-cli">>,
             <<"gemini", "m1", "antigravity">>}
RetryAfters == {2}
Cooldowns == {1}
TickSizes == {1, 2}
Pids == {1}
AccountIds == 1..MaxAccounts

Undefined == -1

----------------------------------------------------------------------------
(* generic helpers *)

Min(a, b) == IF a < b THEN a ELSE b
Max(a, b) == IF a > b THEN a ELSE b

\* JavaScript's remainder: the sign follows the dividend
JsRem(a, n) == IF a >= 0 THEN a % n ELSE 0 - ((0 - a) % n)

\* the elements of a set of positions as an ascending sequence (Array.filter order)
Ascending(S) ==
  [k \in 1..Cardinality(S) |-> CHOOSE i \in S : Cardinality({j \in S : j < i}) = k - 1]

\* obj[key] = value  /  delete obj[key] on a JavaScript object used as a map
ObjSet(obj, key, value) == [k \in DOMAIN obj \cup {key} |-> IF k = key THEN value ELSE obj[k]]
ObjDelete(obj, key) == [k \in DOMAIN obj \ {key} |-> obj[k]]
EmptyObj == [k \in {} |-> 0]

----------------------------------------------------------------------------
(* accounts.js: module-level functions *)

getQuotaKey(family, headerStyle, model) ==
  IF family = "claude" THEN "claude"
  ELSE LET base == IF headerStyle = "gemini-cli" THEN "gemini-cli" ELSE "gemini-antigravity"
       IN IF model # NoModel THEN base \o ":" \o model ELSE base

\* mutant: the reset time itself still counts as limited
isRateLimitedForQuotaKey_Inclusive(account, key) ==
  /\ key \in DOMAIN account.rateLimitResetTimes
  /\ now <= account.rateLimitResetTimes[key]

isRateLimitedForQuotaKey(account, key) ==
  /\ key \in DOMAIN account.rateLimitResetTimes
  /\ now < account.rateLimitResetTimes[key]

clearExpiredRateLimits(account) ==
  [account EXCEPT !.rateLimitResetTimes =
     [k \in {k \in DOMAIN @ : ~(now >= @[k])} |-> @[k]]]

isRateLimitedForHeaderStyle(account, family, headerStyle, model) ==
  IF family = "claude" THEN isRateLimitedForQuotaKey(account, "claude")
  ELSE \/ /\ model # NoModel
          /\ isRateLimitedForQuotaKey(account, getQuotaKey(family, headerStyle, model))
       \/ isRateLimitedForQuotaKey(account, getQuotaKey(family, headerStyle, NoModel))

isRateLimitedForFamily(account, family, model) ==
  IF family = "claude" THEN isRateLimitedForQuotaKey(account, "claude")
  ELSE /\ isRateLimitedForHeaderStyle(account, family, "antigravity", model)
       /\ isRateLimitedForHeaderStyle(account, family, "gemini-cli", model)

----------------------------------------------------------------------------
(* accounts.js: AccountManager *)

\* an absent cooldownReason
NoReason == ""
Reasons == {"auth-failure"}

\* mutant: the deadline itself still counts as cooling down
isAccountCoolingDown_Inclusive(account) ==
  /\ account.coolingDownUntil # Undefined
  /\ now <= account.coolingDownUntil

isAccountCoolingDown(account) ==
  /\ account.coolingDownUntil # Undefined
  /\ ~(now >= account.coolingDownUntil)

\* the side effect of isAccountCoolingDown: an expired cooldown is cleared
clearAccountCooldown(account) ==
  IF account.coolingDownUntil # Undefined /\ now >= account.coolingDownUntil
  THEN [account EXCEPT !.coolingDownUntil = Undefined, !.cooldownReason = NoReason]
  ELSE account

markTouchedForQuota(account, quotaKey) ==
  [account EXCEPT !.touchedForQuota = ObjSet(@, quotaKey, now)]

\* mutant: every account counts as fresh
isFreshForQuota_Always(account, quotaKey) == TRUE

isFreshForQuota(account, quotaKey) ==
  \/ quotaKey \notin DOMAIN account.touchedForQuota
  \/ account.touchedForQuota[quotaKey] = 0
  \/ /\ quotaKey \in DOMAIN account.rateLimitResetTimes
     /\ account.rateLimitResetTimes[quotaKey] # 0
     /\ account.touchedForQuota[quotaKey] < account.rateLimitResetTimes[quotaKey]

\* an account is eligible: the filter predicate of getNextForFamily
Eligible(account, family, model) ==
  /\ ~isRateLimitedForFamily(account, family, model)
  /\ ~isAccountCoolingDown(account)

\* what evaluating that predicate does to the account (&& short-circuits)
EligibleEffect(account, family, model) ==
  LET c == clearExpiredRateLimits(account)
  IN IF isRateLimitedForFamily(c, family, model) THEN c ELSE clearAccountCooldown(c)

\* the manager's mutable fields as one value
Manager == [accounts |-> accounts, cursor |-> cursor,
            current |-> currentAccountIndexByFamily,
            applied |-> sessionOffsetApplied]

getCurrentAccountForFamily(m, family) ==
  LET currentIndex == m.current[family]
  IN IF currentIndex >= 0 /\ currentIndex < Len(m.accounts) THEN currentIndex + 1 ELSE 0

\* mutant: the cursor is not advanced
getNextForFamily_NoAdvance(m, family, model) ==
  LET accs == [i \in 1..Len(m.accounts) |-> EligibleEffect(m.accounts[i], family, model)]
      available == Ascending({i \in 1..Len(accs) : Eligible(accs[i], family, model)})
  IN IF Len(available) = 0
     THEN [m |-> [m EXCEPT !.accounts = accs], pos |-> 0]
     ELSE LET p == available[(m.cursor % Len(available)) + 1]
          IN [m |-> [m EXCEPT !.accounts = [accs EXCEPT ![p].lastUsed = now]], pos |-> p]

\* returns the manager afterwards and the position (1-based, 0 for null) of the account
getNextForFamily(m, family, model) ==
  LET accs == [i \in 1..Len(m.accounts) |-> EligibleEffect(m.accounts[i], family, model)]
      available == Ascending({i \in 1..Len(accs) : Eligible(accs[i], family, model)})
  IN IF Len(available) = 0
     THEN [m |-> [m EXCEPT !.accounts = accs], pos |-> 0]
     ELSE LET p == available[(m.cursor % Len(available)) + 1]
          IN [m |-> [m EXCEPT !.accounts = [accs EXCEPT ![p].lastUsed = now],
                                !.cursor = @ + 1],
              pos |-> p]

\* the tail shared by the round-robin branch and the sticky fallback
AdvanceToNext(m, family, model, quotaKey) ==
  LET r == getNextForFamily(m, family, model)
  IN IF r.pos = 0 THEN r
     ELSE [m |-> [r.m EXCEPT !.accounts[r.pos] = markTouchedForQuota(@, quotaKey),
                             !.current[family] = r.m.accounts[r.pos].index],
           pos |-> r.pos]

getFreshAccountsForQuota(m, quotaKey, family, model) ==
  LET accs == [i \in 1..Len(m.accounts) |->
                 LET c == clearExpiredRateLimits(m.accounts[i])
                 IN IF isFreshForQuota(c, quotaKey) /\ ~isRateLimitedForFamily(c, family, model)
                    THEN clearAccountCooldown(c) ELSE c]
      fresh == Ascending({i \in 1..Len(accs) :
                            /\ isFreshForQuota(accs[i], quotaKey)
                            /\ Eligible(accs[i], family, model)})
  IN [m |-> [m EXCEPT !.accounts = accs], fresh |-> fresh]

\* mutant: the offset is applied on every selection
ApplyPidOffset_EveryTime(m, family, pidOffsetEnabled) ==
  IF pidOffsetEnabled /\ Len(m.accounts) > 1
  THEN [m EXCEPT !.current[family] = JsRem(@ + (pid % Len(m.accounts)), Len(m.accounts)),
                 !.applied[family] = TRUE]
  ELSE m

ApplyPidOffset(m, family, pidOffsetEnabled) ==
  IF pidOffsetEnabled /\ ~m.applied[family] /\ Len(m.accounts) > 1
  THEN LET pidOffset == pid % Len(m.accounts)
           baseIndex == m.current[family]
       IN [m EXCEPT !.current[family] = JsRem(baseIndex + pidOffset, Len(m.accounts)),
                    !.applied[family] = TRUE]
  ELSE m

\* mutant: the current account is not preferred, every call advances
StickyOrNext_AlwaysAdvance(m0, family, model, quotaKey, pidOffsetEnabled) ==
  AdvanceToNext(ApplyPidOffset(m0, family, pidOffsetEnabled), family, model, quotaKey)

\* mutant: the current account is returned without looking at its limits
StickyOrNext_NoCheck(m0, family, model, quotaKey, pidOffsetEnabled) ==
  LET m == ApplyPidOffset(m0, family, pidOffsetEnabled)
      cur == getCurrentAccountForFamily(m, family)
  IN IF cur # 0
     THEN [m |-> [m EXCEPT !.accounts[cur] =
                    markTouchedForQuota([@ EXCEPT !.lastUsed = now], quotaKey)],
           pos |-> cur]
     ELSE AdvanceToNext(m, family, model, quotaKey)

StickyOrNext(m0, family, model, quotaKey, pidOffsetEnabled) ==
  LET m == ApplyPidOffset(m0, family, pidOffsetEnabled)
      cur == getCurrentAccountForFamily(m, family)
      m1 == IF cur = 0 THEN m
            ELSE [m EXCEPT !.accounts[cur] = EligibleEffect(@, family, model)]
  IN IF cur # 0 /\ Eligible(m1.accounts[cur], family, model)
     THEN [m |-> [m1 EXCEPT !.accounts[cur] =
                    markTouchedForQuota([@ EXCEPT !.lastUsed = now], quotaKey)],
           pos |-> cur]
     ELSE AdvanceToNext(m1, family, model, quotaKey)

getCurrentOrNextForFamily(m, family, model, strategy, headerStyle, pidOffsetEnabled) ==
  LET quotaKey == getQuotaKey(family, headerStyle, model)
  IN IF strategy = "round-robin" THEN AdvanceToNext(m, family, model, quotaKey)
     ELSE IF strategy = "hybrid"
     THEN LET f == getFreshAccountsForQuota(m, quotaKey, family, model)
          IN IF Len(f.fresh) > 0
             THEN LET p == f.fresh[1]
                  IN [m |-> [f.m EXCEPT !.accounts[p] =
                               markTouchedForQuota([@ EXCEPT !.lastUsed = now], quotaKey),
                                        !.current[family] = f.m.accounts[p].index],
                      pos |-> p]
             ELSE StickyOrNext(f.m, family, model, quotaKey, pidOffsetEnabled)
     ELSE StickyOrNext(m, family, model, quotaKey, pidOffsetEnabled)

\* mutant: the limit is written under the key of the whole pool
markRateLimited_PoolKey(account, retryAfterMs, family, headerStyle, model) ==
  [account EXCEPT !.rateLimitResetTimes =
     ObjSet(@, getQuotaKey(family, headerStyle, NoModel), now + retryAfterMs)]

markRateLimited(account, retryAfterMs, family, headerStyle, model) ==
  [account EXCEPT !.rateLimitResetTimes =
     ObjSet(@, getQuotaKey(family, headerStyle, model), now + retryAfterMs)]

markAccountCoolingDown(account, cooldownMs, reason) ==
  [account EXCEPT !.coolingDownUntil = now + cooldownMs, !.cooldownReason = reason]

\* Math.min over a non-empty collection of numbers
SetMin(S) == CHOOSE x \in S : \A y \in S : x <= y

\* the keys whose reset times getMinWaitTimeForFamily reads for an account
WaitKeys(family, model) ==
  IF family = "claude" THEN {"claude"}
  ELSE {getQuotaKey(family, "antigravity", model), getQuotaKey(family, "gemini-cli", model)}

\* the wait of one account, as the set of the values pushed for it (none or one)
AccountWait(account, family, model) ==
  LET times == {Max(0, account.rateLimitResetTimes[k] - now) :
                  k \in WaitKeys(family, model) \cap DOMAIN account.rateLimitResetTimes}
  IN IF times = {} THEN {} ELSE {SetMin(times)}

\* mutant: the wait is computed even when an account is available
getMinWaitTimeForFamily_NoShortcut(accs0, family, model) ==
  LET accs == [i \in 1..Len(accs0) |-> clearExpiredRateLimits(accs0[i])]
      waitTimes == UNION {AccountWait(accs[i], family, model) : i \in 1..Len(accs)}
  IN [accounts |-> accs, ret |-> IF waitTimes # {} THEN SetMin(waitTimes) ELSE 0]

\* returns the accounts afterwards and the wait in ms
getMinWaitTimeForFamily(accs0, family, model) ==
  LET accs == [i \in 1..Len(accs0) |-> clearExpiredRateLimits(accs0[i])]
      available == {i \in 1..Len(accs) : ~isRateLimitedForFamily(accs[i], family, model)}
      waitTimes == UNION {AccountWait(accs[i], family, model) : i \in 1..Len(accs)}
  IN [accounts |-> accs,
      ret |-> IF available # {} THEN 0
              ELSE IF waitTimes # {} THEN SetMin(waitTimes) ELSE 0]

\* an absent header style (null)
NoStyle == "null"

\* mutant: no fallback to the gemini-cli pool
getAvailableHeaderStyle_NoFallback(account, family, model) ==
  LET c == clearExpiredRateLimits(account)
  IN [account |-> c,
      ret |-> IF isRateLimitedForHeaderStyle(c, family, "antigravity", model)
              THEN NoStyle ELSE "antigravity"]

\* returns the account afterwards and the header style
getAvailableHeaderStyle(account, family, model) ==
  LET c == clearExpiredRateLimits(account)
  IN [account |-> c,
      ret |-> IF family = "claude"
              THEN (IF isRateLimitedForHeaderStyle(c, family, "antigravity", NoModel)
                    THEN NoStyle ELSE "antigravity")
              ELSE IF ~isRateLimitedForHeaderStyle(c, family, "antigravity", model)
              THEN "antigravity"
              ELSE IF ~isRateLimitedForHeaderStyle(c, family, "gemini-cli", model)
              THEN "gemini-cli"
              ELSE NoStyle]

\* Array.indexOf on the account object (identified by its refresh token); 0 when absent
IndexOfAccount(accs, id) ==
  IF \E i \in 1..Len(accs) : accs[i].id = id
  THEN CHOOSE i \in 1..Len(accs) : accs[i].id = id
  ELSE 0

\* mutant: a pointer behind the removed account is not shifted down
AdjustPointer_NoShift(ptr, idx, len) == IF ptr >= len THEN -1 ELSE ptr

\* the family-pointer adjustment of removeAccount, idx 0-based, len the new length
AdjustPointer(ptr, idx, len) ==
  LET p1 == IF ptr > idx THEN ptr - 1 ELSE ptr
  IN IF p1 >= len THEN -1 ELSE p1

removeAccount(m, pos) ==
  LET idx == pos - 1
      spliced == [i \in 1..(Len(m.accounts) - 1) |->
                    IF i < pos THEN m.accounts[i] ELSE m.accounts[i + 1]]
      renum == [i \in 1..Len(spliced) |-> [spliced[i] EXCEPT !.index = i - 1]]
  IN IF Len(renum) = 0
     THEN [m EXCEPT !.accounts = renum, !.cursor = 0,
                    !.current = [f \in Families |-> -1]]
     ELSE [m EXCEPT !.accounts = renum,
                    !.cursor = (IF @ > idx THEN @ - 1 ELSE @) % Len(renum),
                    !.current = [f \in Families |-> AdjustPointer(@[f], idx, Len(renum))]]

----------------------------------------------------------------------------
(* storage.ts: the stored collection and its merge *)

StoreProcs == {1, 2}
StoreKeys == {"claude", "gemini-antigravity"}
ResetTimes == {5, 7}
LastUsedValues == {1, 2}

\* the content ensureFileExists writes
EmptyStorage == [version |-> 3, accounts |-> <<>>, activeIndex |-> 0]

NoFile == [exists |-> FALSE, complete |-> TRUE, content |-> EmptyStorage]
FileWith(storage) == [exists |-> TRUE, complete |-> TRUE, content |-> storage]

\* a file fs.writeFile has opened (and so created or truncated) and not yet written:
\* its text is not a JSON document
Truncated == [exists |-> TRUE, complete |-> FALSE, content |-> EmptyStorage]

\* an AccountMetadataV3 record, with the fields the merge and the dedupe look at
StoredAccount(refreshToken, email, addedAt, lastUsed, rateLimitResetTimes) ==
  [refreshToken |-> refreshToken, email |-> email, addedAt |-> addedAt,
   lastUsed |-> lastUsed, rateLimitResetTimes |-> rateLimitResetTimes]

RateLimitMaps ==
  {EmptyObj} \cup {[k \in {key} |-> t] : key \in StoreKeys, t \in ResetTimes}

R1Records ==
  {StoredAccount("r1", "a@x", 1, lu, rl) : lu \in LastUsedValues, rl \in RateLimitMaps}

\* a second account, possibly a re-login of the same e-mail address
R2Records == {StoredAccount("r2", e, 2, 2, EmptyObj) : e \in {"a@x", "b@x"}}

StoredStates ==
  {EmptyStorage}
    \cup {[version |-> 3, accounts |-> <<a>>, activeIndex |-> 0] : a \in R1Records}
    \cup {[version |-> 3, accounts |-> <<a, b>>, activeIndex |-> 0] :
            a \in R1Records, b \in R2Records}

\* position of the record with that refresh token, 0 when there is none
TokenPos(accs, token) ==
  IF \E i \in 1..Len(accs) : accs[i].refreshToken = token
  THEN CHOOSE i \in 1..Len(accs) : accs[i].refreshToken = token
  ELSE 0

\* { ...a, ...b } on objects used as maps
SpreadObj(a, b) ==
  [k \in DOMAIN a \cup DOMAIN b |-> IF k \in DOMAIN b THEN b[k] ELSE a[k]]

\* the record stored for a refresh token both sides have
MergeAccount(existingAcc, acc) ==
  [SpreadObj(existingAcc, acc) EXCEPT !.rateLimitResetTimes =
                SpreadObj(existingAcc.rateLimitResetTimes, acc.rateLimitResetTimes),
              !.lastUsed = Max(existingAcc.lastUsed, acc.lastUsed)]

mergeAccountStorage(existing, incomingStorage) ==
  LET ex == existing.accounts
      inc == incomingStorage.accounts
      updated == [i \in 1..Len(ex) |->
                    LET j == TokenPos(inc, ex[i].refreshToken)
                    IN IF j = 0 THEN ex[i] ELSE MergeAccount(ex[i], inc[j])]
      fresh == SelectSeq(inc, LAMBDA a : TokenPos(ex, a.refreshToken) = 0)
      result == [version |-> 3, accounts |-> updated \o fresh,
                 activeIndex |-> incomingStorage.activeIndex]
  IN IF "activeIndexByFamily" \in DOMAIN incomingStorage
     THEN SpreadObj(result, [activeIndexByFamily |-> incomingStorage.activeIndexByFamily])
     ELSE result

\* variant: a later record wins a tie
IsNewer_OrEqual(acc, existingAcc) ==
  \/ acc.lastUsed > existingAcc.lastUsed
  \/ acc.lastUsed = existingAcc.lastUsed /\ acc.addedAt >= existingAcc.addedAt

IsNewer(acc, existingAcc) ==
  \/ acc.lastUsed > existingAcc.lastUsed
  \/ acc.lastUsed = existingAcc.lastUsed /\ acc.addedAt > existingAcc.addedAt

\* emailToNewestIndex.get(email) after the first n records have been visited
RECURSIVE NewestIndex(_, _, _)
NewestIndex(accs, email, n) ==
  IF n = 0 THEN 0
  ELSE LET prev == NewestIndex(accs, email, n - 1)
       IN IF accs[n].email # email THEN prev
          ELSE IF prev = 0 THEN n
          ELSE IF IsNewer(accs[n], accs[prev]) THEN n ELSE prev

deduplicateAccountsByEmail(accs) ==
  LET indicesToKeep == {i \in 1..Len(accs) :
                          \/ accs[i].email = ""
                          \/ NewestIndex(accs, accs[i].email, Len(accs)) = i}
      kept == Ascending(indicesToKeep)
  IN [k \in 1..Len(kept) |-> accs[kept[k]]]

\* a JSON value of refreshToken that is absent, and one that is a number
MissingToken == "<undefined>"
NumberToken == "<number>"

\* typeof refreshToken === "string"
IsString(token) == token \notin {MissingToken, NumberToken}

\* an account of a version 1 document; rateLimitResetTime 0 stands for an absent one
V1Account(refreshToken, email, addedAt, lastUsed, isRateLimited, rateLimitResetTime) ==
  [refreshToken |-> refreshToken, email |-> email, addedAt |-> addedAt,
   lastUsed |-> lastUsed, isRateLimited |-> isRateLimited,
   rateLimitResetTime |-> rateLimitResetTime]

\* the entries of an object literal built from optional assignments
ObjOf(pairs) == [k \in {p[1] : p \in pairs} |-> (CHOOSE p \in pairs : p[1] = k)[2]]

\* obj?.key is set, truthy and later than Date.now()
StillLimited(obj, key) == key \in DOMAIN obj /\ obj[key] # 0 /\ obj[key] > now

migrateV1ToV2(v1) ==
  [version |-> 2,
   accounts |-> [i \in 1..Len(v1.accounts) |->
     LET acc == v1.accounts[i]
     IN StoredAccount(acc.refreshToken, acc.email, acc.addedAt, acc.lastUsed,
          IF acc.isRateLimited /\ acc.rateLimitResetTime # 0 /\ acc.rateLimitResetTime > now
          THEN ObjOf({<<"claude", acc.rateLimitResetTime>>,
                      <<"gemini", acc.rateLimitResetTime>>})
          ELSE EmptyObj)],
   activeIndex |-> v1.activeIndex]

\* variant: the v2 gemini limit is filed under the gemini-cli key
migrateV2ToV3_GeminiCli(v2) ==
  [version |-> 3,
   accounts |-> [i \in 1..Len(v2.accounts) |->
     LET acc == v2.accounts[i]
         old == acc.rateLimitResetTimes
     IN StoredAccount(acc.refreshToken, acc.email, acc.addedAt, acc.lastUsed,
          ObjOf({<<"claude", old[k]>> : k \in {x \in {"claude"} : StillLimited(old, x)}}
                \cup {<<"gemini-cli", old[k]>> :
                        k \in {x \in {"gemini"} : StillLimited(old, x)}}))],
   activeIndex |-> v2.activeIndex]

migrateV2ToV3(v2) ==
  [version |-> 3,
   accounts |-> [i \in 1..Len(v2.accounts) |->
     LET acc == v2.accounts[i]
         old == acc.rateLimitResetTimes
     IN StoredAccount(acc.refreshToken, acc.email, acc.addedAt, acc.lastUsed,
          ObjOf({<<"claude", old[k]>> : k \in {x \in {"claude"} : StillLimited(old, x)}}
                \cup {<<"gemini-antigravity", old[k]>> :
                        k \in {x \in {"gemini"} : StillLimited(old, x)}}))],
   activeIndex |-> v2.activeIndex]

\* null when the file cannot be read
loadAccountsUnsafe(file) ==
  IF file.exists /\ file.complete
  THEN [found |-> TRUE,
        storage |-> IF file.content.version = 1
                    THEN migrateV2ToV3(migrateV1ToV2(file.content))
                    ELSE IF file.content.version = 2
                    THEN migrateV2ToV3(file.content)
                    ELSE [file.content EXCEPT !.accounts = deduplicateAccountsByEmail(@)]]
  ELSE [found |-> FALSE, storage |-> EmptyStorage]

\* the file saveAccounts leaves when none of its steps fails and no other process runs
saveAccounts(file, storage) ==
  LET ensured == IF file.exists THEN file ELSE FileWith(EmptyStorage)
      existing == loadAccountsUnsafe(ensured)
  IN FileWith(IF existing.found
              THEN mergeAccountStorage(existing.storage, storage)
              ELSE storage)

\* the activeIndex loadAccounts returns for a list of that length
ClampActiveIndex(activeIndex, length) ==
  IF length > 0 THEN Max(Min(activeIndex, length - 1), 0) ELSE 0

\* loadAccounts up to its return: the value returned, and whether it calls saveAccounts
loadAccounts(file) ==
  LET data == file.content
      parsed == file.exists /\ file.complete
      migrates == parsed /\ data.version \in {1, 2}
      storage == IF data.version = 1 THEN migrateV2ToV3(migrateV1ToV2(data))
                 ELSE IF data.version = 2 THEN migrateV2ToV3(data)
                 ELSE data
      validAccounts == SelectSeq(storage.accounts, LAMBDA a : IsString(a.refreshToken))
      deduplicatedAccounts == deduplicateAccountsByEmail(validAccounts)
  IN IF parsed /\ data.version \in {1, 2, 3}
     THEN [found |-> TRUE, migrates |-> migrates, migrated |-> storage,
           storage |-> [version |-> 3, accounts |-> deduplicatedAccounts,
                        activeIndex |-> ClampActiveIndex(storage.activeIndex,
                                                         Len(deduplicatedAccounts))]]
     ELSE [found |-> FALSE, migrates |-> FALSE, migrated |-> EmptyStorage,
           storage |-> EmptyStorage]

NoLoad == [op |-> "none", read |-> NoFile, found |-> FALSE, storage |-> EmptyStorage,
           saved |-> FALSE]

\* lockfile.lock: the time the lock file was last touched, the retries each process
\* has made, and the processes that died
NoLock == [mtime |-> 0, tries |-> [p \in StoreProcs |-> 0], dead |-> {}]

StoreIdle ==
  /\ disk = NoFile
  /\ lockHolder = 0
  /\ spc = [p \in StoreProcs |-> "done"]
  /\ incoming = [p \in StoreProcs |-> EmptyStorage]
  /\ merged = [p \in StoreProcs |-> EmptyStorage]
  /\ loaded = NoLoad
  /\ tmp = [p \in StoreProcs |-> NoFile]
  /\ seen = NoFile
  /\ prior = [p \in StoreProcs |-> NoFile]
  /\ lck = NoLock

MergeIdle ==
  mergeRun = [A |-> EmptyStorage, B |-> EmptyStorage,
              AB |-> EmptyStorage, BA |-> EmptyStorage, done |-> {}]

----------------------------------------------------------------------------
(* reservation.ts *)

RESERVATION_TTL_MS == 30000
CACHE_TTL_MS == 2000

ResProcs == {1, 2}
ResIndices == {0, 1}
\* <<accountIndex, family>>
ResRequests == {<<0, "gemini">>, <<1, "gemini">>, <<0, "claude">>}
ResQueries == {<<0, "gemini">>, <<1, "gemini">>, <<0, "claude">>}
ResTotals == {1, 2}
ResTickSizes == {1000, CACHE_TTL_MS, RESERVATION_TTL_MS}

Reservation(p, family) ==
  [pid |-> p, timestamp |-> now, family |-> family,
   expiresAt |-> now + RESERVATION_TTL_MS]

NoPending == [op |-> "none", data |-> EmptyObj, target |-> -1, clearMine |-> FALSE]

PendingWrite(data, target, clearMine) ==
  [op |-> "write", data |-> data, target |-> target, clearMine |-> clearMine]

NoQuery ==
  [op |-> "none", p |-> 0, index |-> 0, family |-> "claude", ret |-> FALSE,
   avail |-> <<>>, total |-> 0, table |-> EmptyObj, file |-> EmptyObj, at |-> 0,
   alive |-> [p \in ResProcs |-> TRUE]]

internal_isPidAlive(p) == alive[p]

\* what fs.readFile and JSON.parse give; the catch block gives the empty table
ParsedReservations == IF resFileStatus = "json" THEN resFile ELSE EmptyObj

\* variant: a file that cannot be read counts as reserving every account for others
readReservations_FailClosed(p) ==
  IF cachedReservations[p].valid /\ now - lastReadTime[p] < CACHE_TTL_MS
  THEN [data |-> cachedReservations[p].data, lastRead |-> lastReadTime[p], read |-> FALSE]
  ELSE [data |-> IF resFileStatus = "json" THEN resFile
                 ELSE [i \in ResIndices |->
                         [pid |-> CHOOSE q \in ResProcs : q # p, timestamp |-> now,
                          family |-> "gemini", expiresAt |-> now + RESERVATION_TTL_MS]],
        lastRead |-> now, read |-> TRUE]

\* mutant: a cached table is used however old it is
readReservations_NoTtl(p) ==
  IF cachedReservations[p].valid
  THEN [data |-> cachedReservations[p].data, lastRead |-> lastReadTime[p], read |-> FALSE]
  ELSE [data |-> ParsedReservations, lastRead |-> now, read |-> TRUE]

\* the table the call works on and the lastReadTime it leaves
readReservations(p) ==
  IF cachedReservations[p].valid /\ now - lastReadTime[p] < CACHE_TTL_MS
  THEN [data |-> cachedReservations[p].data, lastRead |-> lastReadTime[p], read |-> FALSE]
  ELSE [data |-> ParsedReservations, lastRead |-> now, read |-> TRUE]

cleanStaleReservations(p, data) ==
  LET keep == {key \in DOMAIN data :
                 LET res == data[key]
                     isExpired == now >= res.expiresAt
                     isOurs == res.pid = p
                     isAlive == internal_isPidAlive(res.pid)
                 IN ~isExpired /\ (isOurs \/ isAlive)}
  IN [key \in keep |-> data[key]]

\* mutant: the family of the reservation is not compared
isAccountReserved_AnyFamily(p, data, accountIndex, family) ==
  IF accountIndex \notin DOMAIN data THEN FALSE
  ELSE IF now >= data[accountIndex].expiresAt THEN FALSE
  ELSE IF data[accountIndex].pid = p THEN FALSE
  ELSE IF ~internal_isPidAlive(data[accountIndex].pid) THEN FALSE
  ELSE TRUE

\* mutant: the owner's liveness is not probed
isAccountReserved_NoProbe(p, data, accountIndex, family) ==
  IF accountIndex \notin DOMAIN data THEN FALSE
  ELSE IF now >= data[accountIndex].expiresAt THEN FALSE
  ELSE IF data[accountIndex].pid = p THEN FALSE
  ELSE IF data[accountIndex].family # family THEN FALSE
  ELSE TRUE

\* isAccountReserved on the table readReservations returned
isAccountReserved(p, data, accountIndex, family) ==
  IF accountIndex \notin DOMAIN data THEN FALSE
  ELSE IF now >= data[accountIndex].expiresAt THEN FALSE
  ELSE IF data[accountIndex].pid = p THEN FALSE
  ELSE IF ~internal_isPidAlive(data[accountIndex].pid) THEN FALSE
  ELSE IF data[accountIndex].family # family THEN FALSE
  ELSE TRUE

\* the table reserveAccount writes
ReserveData(p, data, accountIndex, family) ==
  ObjSet(cleanStaleReservations(p, data), accountIndex, Reservation(p, family))

ResIdle ==
  /\ resFile = EmptyObj
  /\ resFileStatus = "missing"
  /\ alive = [p \in ResProcs |-> TRUE]
  /\ cachedReservations = [p \in ResProcs |-> [valid |-> FALSE, data |-> EmptyObj]]
  /\ lastReadTime = [p \in ResProcs |-> 0]
  /\ lastFileRead = [p \in ResProcs |-> 0]
  /\ myReservations = [p \in ResProcs |-> {}]
  /\ rpend = [p \in ResProcs |-> NoPending]
  /\ rlast = NoQuery
  /\ relHist = [p \in ResProcs |-> [done |-> {}, pending |-> {}]]

----------------------------------------------------------------------------
(* proxy.ts *)

PROXY_COOLDOWN_PROGRESSION_MS == <<5000, 15000, 60000, 300000>>

PROXY_ERROR_CODES ==
  {"UND_ERR_SOCKET", "UND_ERR_CONNECT_TIMEOUT", "UND_ERR_PRX_TLS", "ECONNREFUSED",
   "ECONNRESET", "ETIMEDOUT", "ENETUNREACH", "EHOSTUNREACH", "ENOTFOUND",
   "EAI_AGAIN", "EPIPE"}

ProxyUrls == {"http://p1", "socks5://p2"}
ProxyAccounts == {0, 1}
ProxyKeys == ProxyAccounts \X ProxyUrls

\* a ProxyConfig; an absent enabled field counts as enabled
Proxy(url, enabled) == [url |-> url, enabled |-> enabled]

\* the proxies argument: absent, or a list of distinct URLs (the CLI dedups them)
ProxyLists ==
  {<<>>,
   <<Proxy("http://p1", TRUE)>>,
   <<Proxy("http://p1", FALSE)>>,
   <<Proxy("http://p1", TRUE), Proxy("socks5://p2", TRUE)>>,
   <<Proxy("socks5://p2", TRUE), Proxy("http://p1", TRUE)>>,
   <<Proxy("http://p1", FALSE), Proxy("socks5://p2", TRUE)>>,
   <<Proxy("http://p1", FALSE), Proxy("socks5://p2", FALSE)>>}

ProxyArgs ==
  {[given |-> FALSE, list |-> <<>>]} \cup {[given |-> TRUE, list |-> l] : l \in ProxyLists}

\* the accountIndex argument, possibly absent
AccountArgs == {Undefined, 1}

\* one object of an error's cause chain
ErrorEntry(name, code, message) == [name |-> name, code |-> code, message |-> message]

PlainEntry == ErrorEntry("Error", "", "wrapped")

\* a thrown value: whether it is an Error, and the chain error, cause, cause.cause, ...
Thrown(isError, isTypeError, chain) ==
  [isError |-> isError, isTypeError |-> isTypeError, chain |-> chain]

ThrownValues ==
  {Thrown(TRUE, FALSE, <<ErrorEntry("Error", "ECONNREFUSED", "refused")>>),
   Thrown(TRUE, FALSE, <<ErrorEntry("AbortError", "", "This operation was aborted")>>),
   Thrown(TRUE, TRUE, <<ErrorEntry("TypeError", "", "fetch failed")>>),
   Thrown(TRUE, TRUE, <<ErrorEntry("TypeError", "", "fetch failed"),
                        ErrorEntry("Error", "ENOTFOUND", "getaddrinfo")>>),
   Thrown(TRUE, TRUE, <<ErrorEntry("TypeError", "", "fetch failed"), PlainEntry,
                        PlainEntry, PlainEntry,
                        ErrorEntry("Error", "ECONNRESET", "reset")>>),
   Thrown(TRUE, TRUE, <<ErrorEntry("TypeError", "", "fetch failed"), PlainEntry,
                        PlainEntry, PlainEntry, PlainEntry,
                        ErrorEntry("Error", "ECONNRESET", "reset")>>),
   Thrown(TRUE, FALSE, <<ErrorEntry("Error", "", "fetch failed"),
                         ErrorEntry("AbortError", "", "This operation was aborted"),
                         ErrorEntry("Error", "ECONNREFUSED", "refused")>>),
   Thrown(TRUE, FALSE, <<ErrorEntry("Error", "", "Proxy connection failed")>>),
   Thrown(TRUE, FALSE, <<ErrorEntry("Error", "E_APP", "bad input")>>),
   Thrown(FALSE, FALSE, <<>>)}

HttpStatuses == {200, 500}

NoThrown == Thrown(FALSE, FALSE, <<>>)

stateKey_UrlOnly(accountIndex, proxyUrl) == <<0, proxyUrl>>

stateKey(accountIndex, proxyUrl) == <<accountIndex, proxyUrl>>

EnabledProxies_All(list) == list

\* proxies.filter((p) => p.enabled !== false)
EnabledProxies(list) == SelectSeq(list, LAMBDA p : p.enabled # FALSE)

calculateCooldownMs_Linear(failCount) == failCount * 5000

calculateCooldownMs(failCount) ==
  LET idx == Min(failCount - 1, Len(PROXY_COOLDOWN_PROGRESSION_MS) - 1)
  IN IF idx < 0 THEN 300000 ELSE PROXY_COOLDOWN_PROGRESSION_MS[idx + 1]

isAvailable_IgnoreCooldown(accountIndex, proxy) == proxy.enabled # FALSE

isAvailable_Strict(accountIndex, proxy) ==
  IF proxy.enabled = FALSE THEN FALSE
  ELSE IF stateKey(accountIndex, proxy.url) \notin DOMAIN proxyStates THEN TRUE
  ELSE now > proxyStates[stateKey(accountIndex, proxy.url)].cooldownUntil

isAvailable(accountIndex, proxy) ==
  IF proxy.enabled = FALSE THEN FALSE
  ELSE IF stateKey(accountIndex, proxy.url) \notin DOMAIN proxyStates THEN TRUE
  ELSE now >= proxyStates[stateKey(accountIndex, proxy.url)].cooldownUntil

markFailed_KeepCount(states, accountIndex, proxy) ==
  LET key == stateKey(accountIndex, proxy.url)
      failCount == IF key \in DOMAIN states THEN states[key].failCount ELSE 1
  IN ObjSet(states, key, [failCount |-> failCount, lastFailTime |-> now,
                          cooldownUntil |-> now + calculateCooldownMs(failCount)])

\* proxyStates after markFailed
markFailed(states, accountIndex, proxy) ==
  LET key == stateKey(accountIndex, proxy.url)
      failCount == (IF key \in DOMAIN states THEN states[key].failCount ELSE 0) + 1
  IN ObjSet(states, key, [failCount |-> failCount, lastFailTime |-> now,
                          cooldownUntil |-> now + calculateCooldownMs(failCount)])

markSuccess_Keep(states, accountIndex, proxy) == states

\* proxyStates after markSuccess
markSuccess(states, accountIndex, proxy) ==
  ObjDelete(states, stateKey(accountIndex, proxy.url))

\* the error and at most four causes
getErrorChain(error) == SubSeq(error.chain, 1, Min(Len(error.chain), 5))

\* String.prototype.toLowerCase on the messages of the model
ToLowerCase(message) ==
  IF message = "Proxy connection failed" THEN "proxy connection failed"
  ELSE IF message = "This operation was aborted" THEN "this operation was aborted"
  ELSE message

\* String.prototype.includes on the messages of the model
Includes(message, part) ==
  <<message, part>> \in {<<"proxy connection failed", "proxy">>,
                         <<"socket hang up", "socket hang up">>}

hasProxyErrorMessage(message) ==
  \E part \in {"proxy", "tunnel", "socks", "socket hang up", "connect econnrefused"} :
    Includes(message, part)

\* the loop of isProxyConnectionError over the chain, from entry i on
RECURSIVE ChainVerdict(_, _)
ChainVerdict(chain, i) ==
  IF i > Len(chain) THEN FALSE
  ELSE IF chain[i].name = "AbortError" THEN FALSE
  ELSE IF chain[i].code \in PROXY_ERROR_CODES THEN TRUE
  ELSE IF hasProxyErrorMessage(ToLowerCase(chain[i].message)) THEN TRUE
  ELSE ChainVerdict(chain, i + 1)

isProxyConnectionError_AnyEntry(error) ==
  \/ ~error.isError
  \/ \E i \in 1..Len(getErrorChain(error)) :
       /\ getErrorChain(error)[i].name # "AbortError"
       /\ \/ getErrorChain(error)[i].code \in PROXY_ERROR_CODES
          \/ hasProxyErrorMessage(ToLowerCase(getErrorChain(error)[i].message))

isProxyConnectionError(error) ==
  IF ~error.isError THEN TRUE ELSE ChainVerdict(getErrorChain(error), 1)

NoResult ==
  [kind |-> "none", status |-> 0, proxyCount |-> 0, accountIndex |-> 0,
   thrown |-> NoThrown]

NoCall ==
  [phase |-> "idle", proxies |-> [given |-> FALSE, list |-> <<>>],
   accountArg |-> Undefined, acctIdx |-> 0, available |-> <<>>, pos |-> 0,
   requests |-> <<>>, caught |-> NoThrown, result |-> NoResult, at |-> 0,
   before |-> EmptyObj, beforeCache |-> {}]

ProxyExhaustedError(accountIndex, proxyCount) ==
  [NoResult EXCEPT !.kind = "ProxyExhaustedError", !.proxyCount = proxyCount,
                   !.accountIndex = accountIndex]

ProxyIdle ==
  /\ proxyStates = EmptyObj
  /\ dispatcherCache = {}
  /\ pcall = NoCall
  /\ phist = [key \in ProxyKeys |-> [k |-> 0, t |-> 0]]

----------------------------------------------------------------------------
(* construction *)

NewAccount(index, id) ==
  [index |-> index, id |-> id, lastUsed |-> 0,
   rateLimitResetTimes |-> EmptyObj, coolingDownUntil |-> Undefined,
   cooldownReason |-> NoReason,
   touchedForQuota |-> EmptyObj]

\* clampNonNegativeInt on a stored index that may be absent
clampNonNegativeInt(value, fallback) ==
  IF value = Undefined THEN fallback ELSE IF value < 0 THEN 0 ELSE value

\* the refresh tokens of the accounts 1, 2, 3
TokenAt == <<"r1", "r2", "r3">>

\* the account a refresh token belongs to, 0 for a value the constructor rejects
\* (!acc.refreshToken || typeof acc.refreshToken !== "string")
TokenId(token) ==
  IF \E i \in 1..Len(TokenAt) : TokenAt[i] = token
  THEN CHOOSE i \in 1..Len(TokenAt) : TokenAt[i] = token
  ELSE 0

\* obj.name, or the default when the property is absent
Field(obj, name, default) == IF name \in DOMAIN obj THEN obj[name] ELSE default

\* what loadAccounts hands to the constructor: n records (refresh tokens 1..n)
\* and an activeIndex clamped to the list; activeIndexByFamily is not loaded
StoredCollections ==
  UNION {{[version |-> 3,
           accounts |-> [i \in 1..n |-> StoredAccount(TokenAt[i], "", 0, 0, EmptyObj)],
           activeIndex |-> a] : a \in 0..Max(n - 1, 0)} : n \in 0..MaxAccounts}

\* new AccountManager(undefined, stored)
Constructed(stored) ==
  IF Len(stored.accounts) = 0
  THEN [accounts |-> <<>>, cursor |-> 0,
        current |-> [f \in Families |-> -1],
        applied |-> [f \in Families |-> FALSE]]
  ELSE LET mapped == [i \in 1..Len(stored.accounts) |->
                        LET acc == stored.accounts[i]
                        IN [NewAccount(i - 1, TokenId(acc.refreshToken)) EXCEPT
                              !.lastUsed = clampNonNegativeInt(acc.lastUsed, 0),
                              !.rateLimitResetTimes = acc.rateLimitResetTimes,
                              !.coolingDownUntil = Field(acc, "coolingDownUntil", Undefined),
                              !.cooldownReason = Field(acc, "cooldownReason", NoReason)]]
           kept == SelectSeq(mapped, LAMBDA a : a.id # 0)
           c == clampNonNegativeInt(stored.activeIndex, 0)
           byFamily == Field(stored, "activeIndexByFamily", [f \in Families |-> Undefined])
       IN IF Len(kept) > 0
          THEN [accounts |-> kept,
                cursor |-> c % Len(kept),
                current |-> [f \in Families |->
                               clampNonNegativeInt(byFamily[f], c % Len(kept)) % Len(kept)],
                applied |-> [f \in Families |-> FALSE]]
          ELSE [accounts |-> kept, cursor |-> c,
                current |-> [f \in Families |-> -1],
                applied |-> [f \in Families |-> FALSE]]

\* no run of hybrid selections is being recorded
NoRun == [request |-> <<"claude", NoModel, "antigravity">>, ids |-> <<>>, plain |-> FALSE]

NoOp == [op |-> "init", family |-> "claude", model |-> NoModel, strategy |-> "sticky",
         headerStyle |-> "antigravity", pidOffset |-> FALSE, ret |-> 0, arg |-> 0,
         ok |-> FALSE, prev |-> 0, before |-> [f \in Families |-> -1], out |-> ""]

InitAM ==
  /\ now = 1
  /\ steps = 0
  /\ \E stored \in StoredCollections :
       LET m == Constructed(stored)
       IN /\ accounts = m.accounts
          /\ cursor = m.cursor
          /\ currentAccountIndexByFamily = m.current
          /\ sessionOffsetApplied = m.applied
  /\ pid \in Pids
  /\ last = NoOp
  /\ lastSticky = [f \in Families |-> 0]
  /\ rrRun = [family |-> "claude", ids |-> <<>>]
  /\ hyRun = NoRun
  /\ lastMark = [id |-> 0, key |-> "claude", until |-> 0]
  /\ StoreIdle
  /\ MergeIdle
  /\ ResIdle
  /\ ProxyIdle

----------------------------------------------------------------------------
(* actions of the AccountManager *)

Step == steps < MaxSteps /\ steps' = steps + 1 /\ UNCHANGED <<storeVars, mergeRun, resVars, proxyVars>>

Install(m) ==
  /\ accounts' = m.accounts
  /\ cursor' = m.cursor
  /\ currentAccountIndexByFamily' = m.current
  /\ sessionOffsetApplied' = m.applied

\* every account is eligible and none was touched for the request's quota key
AllUntouched(family, model, headerStyle) ==
  \A i \in 1..Len(accounts) :
    /\ Eligible(accounts[i], family, model)
    /\ getQuotaKey(family, headerStyle, model) \notin DOMAIN accounts[i].touchedForQuota

\* no account has a reset time pending under the request's quota key
NoneLimitedForKey(family, model, headerStyle) ==
  \A i \in 1..Len(accounts) :
    ~isRateLimitedForQuotaKey(accounts[i], getQuotaKey(family, headerStyle, model))

AllEligible(family, model) ==
  \A i \in 1..Len(accounts) : Eligible(accounts[i], family, model)

Select(family, model, strategy, headerStyle, pidOffsetEnabled) ==
  /\ Step
  /\ \E r \in {getCurrentOrNextForFamily(Manager, family, model, strategy, headerStyle,
                                         pidOffsetEnabled)} :
       LET id == IF r.pos = 0 THEN 0 ELSE r.m.accounts[r.pos].id
       IN /\ Install(r.m)
          /\ last' = [NoOp EXCEPT !.op = "select", !.family = family, !.model = model,
                                  !.strategy = strategy, !.headerStyle = headerStyle,
                                  !.pidOffset = pidOffsetEnabled, !.ret = id,
                                  !.ok = (r.pos # 0), !.prev = lastSticky[family],
                                  !.before = currentAccountIndexByFamily]
          /\ lastSticky' = [lastSticky EXCEPT ![family] =
                              IF strategy = "sticky" /\ ~pidOffsetEnabled THEN id ELSE 0]
          /\ rrRun' = IF strategy = "round-robin" /\ AllEligible(family, model) /\ id # 0
                      THEN [family |-> family,
                            ids |-> IF rrRun.family = family
                                    THEN Append(rrRun.ids, id) ELSE <<id>>]
                      ELSE [family |-> family, ids |-> <<>>]
          /\ hyRun' = IF strategy # "hybrid" \/ id = 0 THEN NoRun
                      ELSE IF hyRun.ids # <<>> /\ hyRun.request = <<family, model, headerStyle>>
                      THEN [hyRun EXCEPT !.ids = Append(@, id)]
                      ELSE IF AllUntouched(family, model, headerStyle)
                      THEN [request |-> <<family, model, headerStyle>>, ids |-> <<id>>,
                            plain |-> NoneLimitedForKey(family, model, headerStyle)]
                      ELSE NoRun
  /\ UNCHANGED <<now, pid, lastMark>>

MarkRateLimited(id, retryAfterMs, family, headerStyle, model) ==
  /\ Step
  /\ \E pos \in {IndexOfAccount(accounts, id)} :
        /\ pos # 0
        /\ accounts' = [accounts EXCEPT ![pos] =
                          markRateLimited(@, retryAfterMs, family, headerStyle, model)]
  /\ last' = [NoOp EXCEPT !.op = "markRateLimited", !.family = family, !.model = model,
                          !.headerStyle = headerStyle, !.ret = id, !.arg = retryAfterMs,
                          !.before = currentAccountIndexByFamily]
  /\ lastMark' = [id |-> id, key |-> getQuotaKey(family, headerStyle, model),
                  until |-> now + retryAfterMs]
  /\ rrRun' = [rrRun EXCEPT !.ids = <<>>]
  /\ hyRun' = NoRun
  /\ UNCHANGED <<now, cursor, currentAccountIndexByFamily, sessionOffsetApplied, pid,
                 lastSticky>>

MarkAccountCoolingDown(id, cooldownMs, reason) ==
  /\ Step
  /\ \E pos \in {IndexOfAccount(accounts, id)} :
        /\ pos # 0
        /\ accounts' = [accounts EXCEPT ![pos] = markAccountCoolingDown(@, cooldownMs, reason)]
  /\ last' = [NoOp EXCEPT !.op = "markAccountCoolingDown", !.ret = id, !.arg = cooldownMs,
                          !.before = currentAccountIndexByFamily]
  /\ rrRun' = [rrRun EXCEPT !.ids = <<>>]
  /\ hyRun' = NoRun
  /\ UNCHANGED <<now, cursor, currentAccountIndexByFamily, sessionOffsetApplied, pid,
                 lastSticky, lastMark>>

\* removeAccount(account): the account object is known by its refresh token;
\* an object that is no longer in the pool makes indexOf return -1
RemoveAccount(id) ==
  /\ Step
  /\ \E pos \in {IndexOfAccount(accounts, id)} :
        /\ IF pos = 0 THEN UNCHANGED <<accounts, cursor, currentAccountIndexByFamily,
                                       sessionOffsetApplied>>
           ELSE Install(removeAccount(Manager, pos))
        /\ last' = [NoOp EXCEPT !.op = "removeAccount", !.ret = id, !.arg = pos,
                                !.ok = (pos # 0), !.before = currentAccountIndexByFamily]
  /\ rrRun' = [rrRun EXCEPT !.ids = <<>>]
  /\ hyRun' = NoRun
  /\ UNCHANGED <<now, pid, lastSticky, lastMark>>

\* the clock advances between operations
Tick(d) ==
  /\ Step
  /\ now' = now + d
  /\ last' = [NoOp EXCEPT !.op = "tick", !.before = currentAccountIndexByFamily]
  /\ UNCHANGED <<accounts, cursor, currentAccountIndexByFamily, sessionOffsetApplied, pid,
                 lastSticky, rrRun, hyRun, lastMark>>

\* the calls the model makes: every request under the sticky and the round-robin
\* strategy, and one request with the PID offset enabled
Calls == (Requests \X {"sticky", "round-robin"} \X {FALSE}) \cup
         ({<<"claude", NoModel, "antigravity">>} \X {"sticky"} \X {TRUE}) \cup
         ({<<"claude", NoModel, "antigravity">>} \X {"hybrid"} \X {FALSE})

NextAM ==
  \/ \E c \in Calls : Select(c[1][1], c[1][2], c[2], c[1][3], c[3])
  \/ \E id \in AccountIds, d \in RetryAfters, r \in Requests :
       MarkRateLimited(id, d, r[1], r[3], r[2])
  \/ \E id \in AccountIds, d \in Cooldowns, reason \in Reasons :
       MarkAccountCoolingDown(id, d, reason)
  \/ \E id \in AccountIds : RemoveAccount(id)
  \/ \E d \in TickSizes : Tick(d)

SpecAM == InitAM /\ [][NextAM]_vars

----------------------------------------------------------------------------
(* the AccountManager asked how long to wait and which pool to use *)

GetMinWaitTimeForFamily(family, model) ==
  /\ Step
  /\ \E r \in {getMinWaitTimeForFamily(accounts, family, model)} :
       /\ accounts' = r.accounts
       /\ last' = [NoOp EXCEPT !.op = "getMinWaitTimeForFamily", !.family = family,
                               !.model = model, !.ret = r.ret,
                               !.before = currentAccountIndexByFamily]
  /\ UNCHANGED <<now, cursor, currentAccountIndexByFamily, sessionOffsetApplied, pid,
                 lastSticky, rrRun, hyRun, lastMark>>

GetAvailableHeaderStyle(id, family, model) ==
  /\ Step
  /\ \E pos \in {IndexOfAccount(accounts, id)} :
       /\ pos # 0
       /\ \E r \in {getAvailableHeaderStyle(accounts[pos], family, model)} :
            /\ accounts' = [accounts EXCEPT ![pos] = r.account]
            /\ last' = [NoOp EXCEPT !.op = "getAvailableHeaderStyle", !.family = family,
                                    !.model = model, !.ret = id, !.out = r.ret,
                                    !.ok = (r.ret # NoStyle),
                                    !.before = currentAccountIndexByFamily]
  /\ UNCHANGED <<now, cursor, currentAccountIndexByFamily, sessionOffsetApplied, pid,
                 lastSticky, rrRun, hyRun, lastMark>>

\* <<family, model>> of the questions the callers ask
WaitQueries == {<<"claude", NoModel>>, <<"gemini", NoModel>>, <<"gemini", "m1">>}
WaitRetryAfters == {2, 5}
WaitTickSizes == {2}

NextWait ==
  \/ Select("claude", NoModel, "sticky", "antigravity", FALSE)
  \/ \E id \in AccountIds, d \in WaitRetryAfters, r \in Requests :
       MarkRateLimited(id, d, r[1], r[3], r[2])
  \/ \E q \in WaitQueries : GetMinWaitTimeForFamily(q[1], q[2])
  \/ \E id \in AccountIds, q \in WaitQueries : GetAvailableHeaderStyle(id, q[1], q[2])
  \/ \E d \in WaitTickSizes : Tick(d)

SpecWait == InitAM /\ [][NextWait]_vars

----------------------------------------------------------------------------
(* the AccountManager selecting under every strategy, with cooldowns *)

IsAccountCoolingDown(id) ==
  /\ Step
  /\ \E pos \in {IndexOfAccount(accounts, id)} :
       /\ pos # 0
       /\ accounts' = [accounts EXCEPT ![pos] = clearAccountCooldown(@)]
       /\ last' = [NoOp EXCEPT !.op = "isAccountCoolingDown", !.ret = id,
                               !.prev = accounts[pos].coolingDownUntil,
                               !.ok = isAccountCoolingDown(accounts[pos]),
                               !.before = currentAccountIndexByFamily]
  /\ UNCHANGED <<now, cursor, currentAccountIndexByFamily, sessionOffsetApplied, pid,
                 lastSticky, rrRun, hyRun, lastMark>>

GetAccountCooldownReason(id) ==
  /\ Step
  /\ \E pos \in {IndexOfAccount(accounts, id)} :
       /\ pos # 0
       /\ accounts' = [accounts EXCEPT ![pos] = clearAccountCooldown(@)]
       /\ last' = [NoOp EXCEPT !.op = "getAccountCooldownReason", !.ret = id,
                               !.prev = accounts[pos].coolingDownUntil,
                               !.out = IF isAccountCoolingDown(accounts[pos])
                                       THEN accounts[pos].cooldownReason ELSE NoReason,
                               !.before = currentAccountIndexByFamily]
  /\ UNCHANGED <<now, cursor, currentAccountIndexByFamily, sessionOffsetApplied, pid,
                 lastSticky, rrRun, hyRun, lastMark>>

\* <<family, model, headerStyle>> of the selections
SelRequests == {<<"claude", NoModel, "antigravity">>, <<"gemini", NoModel, "antigravity">>}

NextSel ==
  \/ \E r \in SelRequests, strategy \in Strategies, pidOffsetEnabled \in BOOLEAN :
       Select(r[1], r[2], strategy, r[3], pidOffsetEnabled)
  \/ \E id \in AccountIds, d \in RetryAfters, r \in SelRequests :
       MarkRateLimited(id, d, r[1], r[3], r[2])
  \/ \E id \in AccountIds, d \in Cooldowns, reason \in Reasons :
       MarkAccountCoolingDown(id, d, reason)
  \/ \E id \in AccountIds : IsAccountCoolingDown(id)
  \/ \E id \in AccountIds : GetAccountCooldownReason(id)
  \/ \E d \in TickSizes : Tick(d)

SpecSel == InitAM /\ [][NextSel]_vars

----------------------------------------------------------------------------
(* mergeAccountStorage applied to two stored states, in both orders *)

InitMerge ==
  /\ now = 1 /\ steps = 0
  /\ accounts = <<>> /\ cursor = 0
  /\ currentAccountIndexByFamily = [f \in Families |-> -1]
  /\ sessionOffsetApplied = [f \in Families |-> FALSE]
  /\ pid \in Pids
  /\ last = NoOp
  /\ lastSticky = [f \in Families |-> 0]
  /\ rrRun = [family |-> "claude", ids |-> <<>>]
  /\ hyRun = NoRun
  /\ lastMark = [id |-> 0, key |-> "claude", until |-> 0]
  /\ StoreIdle
  /\ ResIdle
  /\ ProxyIdle
  /\ \E a \in StoredStates, b \in StoredStates :
       mergeRun = [A |-> a, B |-> b, AB |-> EmptyStorage, BA |-> EmptyStorage,
                   done |-> {}]

\* B is on disk and A is saved over it
MergeAIntoB ==
  /\ "AB" \notin mergeRun.done
  /\ mergeRun' = [mergeRun EXCEPT !.AB = mergeAccountStorage(mergeRun.B, mergeRun.A),
                                  !.done = @ \cup {"AB"}]
  /\ UNCHANGED <<now, steps, amVars, storeVars, resVars, proxyVars>>

\* A is on disk and B is saved over it
MergeBIntoA ==
  /\ "BA" \notin mergeRun.done
  /\ mergeRun' = [mergeRun EXCEPT !.BA = mergeAccountStorage(mergeRun.A, mergeRun.B),
                                  !.done = @ \cup {"BA"}]
  /\ UNCHANGED <<now, steps, amVars, storeVars, resVars, proxyVars>>

NextMerge == MergeAIntoB \/ MergeBIntoA

SpecMerge == InitMerge /\ [][NextMerge]_vars

----------------------------------------------------------------------------
(* saveAccounts called by two processes on the shared file *)

InitStore ==
  /\ now = 1 /\ steps = 0
  /\ accounts = <<>> /\ cursor = 0
  /\ currentAccountIndexByFamily = [f \in Families |-> -1]
  /\ sessionOffsetApplied = [f \in Families |-> FALSE]
  /\ pid \in Pids
  /\ last = NoOp
  /\ lastSticky = [f \in Families |-> 0]
  /\ rrRun = [family |-> "claude", ids |-> <<>>]
  /\ hyRun = NoRun
  /\ lastMark = [id |-> 0, key |-> "claude", until |-> 0]
  /\ MergeIdle
  /\ ResIdle
  /\ ProxyIdle
  /\ disk \in {NoFile, FileWith(EmptyStorage)}
  /\ lockHolder = 0
  /\ spc = [p \in StoreProcs |-> "access"]
  /\ incoming \in [StoreProcs -> StoredStates]
  /\ merged = [p \in StoreProcs |-> EmptyStorage]
  /\ loaded = NoLoad
  /\ tmp = [p \in StoreProcs |-> NoFile]
  /\ seen = NoFile
  /\ prior = [p \in StoreProcs |-> NoFile]
  /\ lck = NoLock

StoreFrame ==
  UNCHANGED <<now, steps, amVars, mergeRun, resVars, proxyVars, incoming, loaded,
              tmp, seen, prior, lck>>

\* ensureFileExists: fs.access
EnsureAccess(p) ==
  /\ spc[p] = "access"
  /\ spc' = [spc EXCEPT ![p] = IF disk.exists THEN "lock" ELSE "create"]
  /\ UNCHANGED <<disk, lockHolder, merged>>
  /\ StoreFrame

\* ensureFileExists: fs.writeFile of the empty storage, after access failed
EnsureCreate(p) ==
  /\ spc[p] = "create"
  /\ disk' = FileWith(EmptyStorage)
  /\ spc' = [spc EXCEPT ![p] = "lock"]
  /\ UNCHANGED <<lockHolder, merged>>
  /\ StoreFrame

\* lockfile.lock succeeds
Lock(p) ==
  /\ spc[p] = "lock"
  /\ lockHolder = 0
  /\ lockHolder' = p
  /\ spc' = [spc EXCEPT ![p] = "read"]
  /\ UNCHANGED <<disk, merged>>
  /\ StoreFrame

\* lockfile.lock gives up after its retries: saveAccounts throws
LockFail(p) ==
  /\ spc[p] = "lock"
  /\ lockHolder \notin {0, p}
  /\ spc' = [spc EXCEPT ![p] = "failed"]
  /\ UNCHANGED <<disk, lockHolder, merged>>
  /\ StoreFrame

\* loadAccountsUnsafe and mergeAccountStorage
ReadMerge(p) ==
  /\ spc[p] = "read"
  /\ \E existing \in {loadAccountsUnsafe(disk)} :
       merged' = [merged EXCEPT ![p] =
                    IF existing.found
                    THEN mergeAccountStorage(existing.storage, incoming[p])
                    ELSE incoming[p]]
  /\ spc' = [spc EXCEPT ![p] = "write"]
  /\ UNCHANGED <<disk, lockHolder>>
  /\ StoreFrame

\* fs.writeFile of the temporary file and fs.rename over the accounts file
WriteRename(p) ==
  /\ spc[p] = "write"
  /\ disk' = FileWith(merged[p])
  /\ spc' = [spc EXCEPT ![p] = "unlock"]
  /\ UNCHANGED <<lockHolder, merged>>
  /\ StoreFrame

\* release()
Unlock(p) ==
  /\ spc[p] = "unlock"
  /\ lockHolder' = 0
  /\ spc' = [spc EXCEPT ![p] = "done"]
  /\ UNCHANGED <<disk, merged>>
  /\ StoreFrame

NextStore ==
  \E p \in StoreProcs :
    \/ EnsureAccess(p)
    \/ EnsureCreate(p)
    \/ Lock(p)
    \/ LockFail(p)
    \/ ReadMerge(p)
    \/ WriteRename(p)
    \/ Unlock(p)

SpecStore == InitStore /\ [][NextStore]_vars

----------------------------------------------------------------------------
(* loadAccounts applied to the documents the accounts file can hold *)

LoadClock == {10}
LoadResetTimes == {0, 5, 10, 20}
LoadStamps == {1, 2}
LoadActiveIndexes == {-1, 0, 1, 5}
OtherVersions == {0, 4}

\* version 3 records at a position of the list, over the given tokens and addresses
V3RecordsAt(i, tokens, emails) ==
  {StoredAccount(t, e, a, l, EmptyObj) :
     t \in tokens, e \in emails, a \in LoadStamps, l \in LoadStamps}

AnyToken(i) ==
  {TokenAt[i], "", MissingToken} \cup (IF i = 1 THEN {NumberToken} ELSE {})

V3Lists ==
  {<<>>}
    \cup {<<a>> : a \in V3RecordsAt(1, AnyToken(1), {"", "a@x", "b@x"})}
    \cup {<<StoredAccount("r1", "a@x", 1, 1, rl)>> :
            rl \in {[k \in {key} |-> t] : key \in {"claude", "gemini-cli"}, t \in {5, 20}}}
    \cup {<<a, b>> : a \in V3RecordsAt(1, AnyToken(1), {"", "a@x", "b@x"}),
                     b \in V3RecordsAt(2, AnyToken(2), {"", "a@x", "b@x"})}
    \cup {<<a, b, c>> : a \in V3RecordsAt(1, {"r1"}, {"", "a@x"}),
                        b \in V3RecordsAt(2, {"r2"}, {"", "a@x"}),
                        c \in V3RecordsAt(3, {"r3"}, {"", "a@x"})}

V1RecordsAt(i, emails) ==
  {V1Account(TokenAt[i], e, i, 1, f, t) :
     e \in emails, f \in BOOLEAN, t \in LoadResetTimes}

V1Lists ==
  {<<a>> : a \in V1RecordsAt(1, {"a@x"})}
    \cup {<<a, b>> : a \in V1RecordsAt(1, {"a@x"}), b \in V1RecordsAt(2, {"a@x", "b@x"})}

V2RateLimits ==
  {ObjOf({<<"claude", c>> : c \in cs} \cup {<<"gemini", g>> : g \in gs}) :
     cs \in {{}, {5}, {20}}, gs \in {{}, {10}, {20}}}

V2RecordsAt(i, emails) ==
  {StoredAccount(TokenAt[i], e, i, 1, rl) : e \in emails, rl \in V2RateLimits}

V2Lists ==
  {<<a>> : a \in V2RecordsAt(1, {"a@x"})}
    \cup {<<a, b>> : a \in V2RecordsAt(1, {"a@x"}), b \in V2RecordsAt(2, {"a@x", "b@x"})}

Document(version, accs, activeIndex) ==
  [version |-> version, accounts |-> accs, activeIndex |-> activeIndex]

LoadFiles ==
  {NoFile}
    \cup {FileWith(Document(3, l, a)) : l \in V3Lists, a \in LoadActiveIndexes}
    \cup {FileWith(Document(1, l, a)) : l \in V1Lists, a \in {0, 1}}
    \cup {FileWith(Document(2, l, a)) : l \in V2Lists, a \in {0, 1}}
    \cup {FileWith(Document(v, <<StoredAccount("r1", "a@x", 1, 1, EmptyObj)>>, 0)) :
            v \in OtherVersions}

InitLoad ==
  /\ now \in LoadClock /\ steps = 0
  /\ accounts = <<>> /\ cursor = 0
  /\ currentAccountIndexByFamily = [f \in Families |-> -1]
  /\ sessionOffsetApplied = [f \in Families |-> FALSE]
  /\ pid \in Pids
  /\ last = NoOp
  /\ lastSticky = [f \in Families |-> 0]
  /\ rrRun = [family |-> "claude", ids |-> <<>>]
  /\ hyRun = NoRun
  /\ lastMark = [id |-> 0, key |-> "claude", until |-> 0]
  /\ MergeIdle
  /\ ResIdle
  /\ ProxyIdle
  /\ disk \in LoadFiles
  /\ lockHolder = 0
  /\ spc = [p \in StoreProcs |-> "done"]
  /\ incoming = [p \in StoreProcs |-> EmptyStorage]
  /\ merged = [p \in StoreProcs |-> EmptyStorage]
  /\ loaded = NoLoad
  /\ tmp = [p \in StoreProcs |-> NoFile]
  /\ seen = NoFile
  /\ prior = [p \in StoreProcs |-> NoFile]
  /\ lck = NoLock

LoadFrame ==
  UNCHANGED <<now, amVars, mergeRun, resVars, proxyVars, lockHolder, spc, incoming, merged,
              tmp, seen, prior, lck>>

\* loadAccounts; the saveAccounts of a migrated document succeeds
LoadAccounts ==
  /\ steps < MaxSteps /\ steps' = steps + 1
  /\ \E r \in {loadAccounts(disk)} :
       /\ disk' = IF r.migrates THEN saveAccounts(disk, r.migrated) ELSE disk
       /\ loaded' = [op |-> "loadAccounts", read |-> disk, found |-> r.found,
                     storage |-> r.storage, saved |-> r.migrates]
  /\ LoadFrame

\* loadAccounts; the saveAccounts of a migrated document throws, which is only logged
LoadAccountsSaveFails ==
  /\ steps < MaxSteps /\ steps' = steps + 1
  /\ \E r \in {loadAccounts(disk)} :
       /\ r.migrates
       /\ loaded' = [op |-> "loadAccounts", read |-> disk, found |-> r.found,
                     storage |-> r.storage, saved |-> FALSE]
  /\ UNCHANGED disk
  /\ LoadFrame

NextLoad == LoadAccounts \/ LoadAccountsSaveFails

SpecLoad == InitLoad /\ [][NextLoad]_vars

----------------------------------------------------------------------------
(* saveAccounts step by step at the file system, next to a reader of the accounts file *)

WriteStorages ==
  {[version |-> 3, accounts |-> <<StoredAccount(t, "", 1, 1, EmptyObj)>>, activeIndex |-> 0] :
     t \in {"r1", "r2"}}

InitWrite ==
  /\ now = 1 /\ steps = 0
  /\ accounts = <<>> /\ cursor = 0
  /\ currentAccountIndexByFamily = [f \in Families |-> -1]
  /\ sessionOffsetApplied = [f \in Families |-> FALSE]
  /\ pid \in Pids
  /\ last = NoOp
  /\ lastSticky = [f \in Families |-> 0]
  /\ rrRun = [family |-> "claude", ids |-> <<>>]
  /\ hyRun = NoRun
  /\ lastMark = [id |-> 0, key |-> "claude", until |-> 0]
  /\ MergeIdle
  /\ ResIdle
  /\ ProxyIdle
  /\ disk \in {NoFile, FileWith(EmptyStorage)} \cup {FileWith(s) : s \in WriteStorages}
  /\ lockHolder = 0
  /\ spc = [p \in StoreProcs |-> "access"]
  /\ incoming \in [StoreProcs -> WriteStorages]
  /\ merged = [p \in StoreProcs |-> EmptyStorage]
  /\ loaded = NoLoad
  /\ tmp = [p \in StoreProcs |-> NoFile]
  /\ seen = disk
  /\ prior = [p \in StoreProcs |-> NoFile]
  /\ lck = NoLock

WriteFrame ==
  UNCHANGED <<now, steps, amVars, mergeRun, resVars, proxyVars, incoming, loaded, lck>>

\* ensureFileExists: fs.writeFile opens the accounts file itself, creating or truncating it
WCreateOpen(p) ==
  /\ spc[p] = "create"
  /\ disk' = Truncated
  /\ spc' = [spc EXCEPT ![p] = "createWrite"]
  /\ UNCHANGED <<lockHolder, merged, tmp, seen, prior>>
  /\ WriteFrame

\* ensureFileExists: fs.writeFile writes the empty storage and closes
WCreateWrite(p) ==
  /\ spc[p] = "createWrite"
  /\ disk' = FileWith(EmptyStorage)
  /\ spc' = [spc EXCEPT ![p] = "lock"]
  /\ UNCHANGED <<lockHolder, merged, tmp, seen, prior>>
  /\ WriteFrame

\* fs.writeFile(tempPath) opens the temporary file
WTempOpen(p) ==
  /\ spc[p] = "write"
  /\ tmp' = [tmp EXCEPT ![p] = Truncated]
  /\ prior' = [prior EXCEPT ![p] = disk]
  /\ spc' = [spc EXCEPT ![p] = "tempWrite"]
  /\ UNCHANGED <<disk, lockHolder, merged, seen>>
  /\ WriteFrame

\* fs.writeFile(tempPath) writes the merged storage and closes
WTempWrite(p) ==
  /\ spc[p] = "tempWrite"
  /\ tmp' = [tmp EXCEPT ![p] = FileWith(merged[p])]
  /\ spc' = [spc EXCEPT ![p] = "rename"]
  /\ UNCHANGED <<disk, lockHolder, merged, seen, prior>>
  /\ WriteFrame

\* fs.rename(tempPath, path)
WRename(p) ==
  /\ spc[p] = "rename"
  /\ disk' = tmp[p]
  /\ tmp' = [tmp EXCEPT ![p] = NoFile]
  /\ spc' = [spc EXCEPT ![p] = "unlock"]
  /\ UNCHANGED <<lockHolder, merged, seen, prior>>
  /\ WriteFrame

\* fs.writeFile(tempPath) rejects, before or after it created the file, or fs.rename
\* rejects
WWriteFails(p) ==
  /\ spc[p] \in {"write", "tempWrite", "rename"}
  /\ prior' = [prior EXCEPT ![p] = IF spc[p] = "write" THEN disk ELSE @]
  /\ spc' = [spc EXCEPT ![p] = "cleanup"]
  /\ UNCHANGED <<disk, lockHolder, merged, tmp, seen>>
  /\ WriteFrame

\* the catch block: fs.unlink(tempPath), then the error is thrown again
WUnlink(p) ==
  /\ spc[p] = "cleanup"
  /\ tmp' = [tmp EXCEPT ![p] = NoFile]
  /\ spc' = [spc EXCEPT ![p] = "rethrow"]
  /\ UNCHANGED <<disk, lockHolder, merged, seen, prior>>
  /\ WriteFrame

\* the finally block of withFileLock after the error: release(); saveAccounts rejects
WReleaseFailed(p) ==
  /\ spc[p] = "rethrow"
  /\ lockHolder' = 0
  /\ spc' = [spc EXCEPT ![p] = "failed"]
  /\ UNCHANGED <<disk, merged, tmp, seen, prior>>
  /\ WriteFrame

\* some process reads the accounts file (fs.readFile), outside any lock
ReadFile ==
  /\ seen' = disk
  /\ UNCHANGED <<disk, lockHolder, spc, merged, tmp, prior>>
  /\ WriteFrame

NextWrite ==
  \/ \E p \in StoreProcs :
       \/ EnsureAccess(p)
       \/ WCreateOpen(p)
       \/ WCreateWrite(p)
       \/ Lock(p)
       \/ LockFail(p)
       \/ ReadMerge(p)
       \/ WTempOpen(p)
       \/ WTempWrite(p)
       \/ WRename(p)
       \/ WWriteFails(p)
       \/ WUnlink(p)
       \/ Unlock(p)
       \/ WReleaseFailed(p)
  \/ ReadFile

SpecWrite == InitWrite /\ [][NextWrite]_vars

(* storage.ts: the lock of saveAccounts, with retries, a stale lock and a holder that dies *)

LOCK_OPTIONS == [stale |-> 10000, retries |-> 5, minTimeout |-> 100, maxTimeout |-> 1000,
                 factor |-> 2]

\* the wait before retry number k + 1 (exponential backoff)
RetryTimeout(k) ==
  Min(LOCK_OPTIONS.maxTimeout, LOCK_OPTIONS.minTimeout * LOCK_OPTIONS.factor ^ k)

\* mutant: any lock that is held counts as stale
LockStale_AnyHeld == lockHolder # 0

\* the lock file has not been touched for longer than stale; a live holder touches it
\* every stale / 2
LockStale ==
  /\ lockHolder # 0
  /\ lockHolder \in lck.dead
  /\ lck.mtime < now - LOCK_OPTIONS.stale

\* the steps of a save during which fn of withFileLock runs, up to release()
Locked == {"read", "write", "cleanup", "rethrow", "unlock"}

LockFrame ==
  UNCHANGED <<amVars, mergeRun, resVars, proxyVars, disk, incoming, merged, loaded, tmp, seen,
              prior>>

InitLock ==
  /\ InitStore
  /\ disk = NoFile
  /\ \E s \in StoredStates :
       /\ Len(s.accounts) = 2
       /\ s.accounts[1].lastUsed = 1 /\ s.accounts[1].rateLimitResetTimes = EmptyObj
       /\ s.accounts[2].email = "b@x"
       /\ incoming = [p \in StoreProcs |-> s]

\* lockfile.lock finds no lock, or a stale one that it removes, and takes it
LockAcquire(p) ==
  /\ spc[p] = "lock"
  /\ lockHolder = 0 \/ LockStale
  /\ lockHolder' = p
  /\ lck' = [lck EXCEPT !.mtime = now]
  /\ spc' = [spc EXCEPT ![p] = "read"]
  /\ UNCHANGED <<now, steps>>
  /\ LockFrame

\* lockfile.lock finds the lock taken and waits for the next retry
LockRetry(p) ==
  /\ spc[p] = "lock"
  /\ lockHolder # 0 /\ ~LockStale
  /\ lck.tries[p] < LOCK_OPTIONS.retries
  /\ now' = now + RetryTimeout(lck.tries[p])
  /\ lck' = [lck EXCEPT !.tries[p] = @ + 1,
                        !.mtime = IF lockHolder \in lck.dead THEN @ ELSE now']
  /\ UNCHANGED <<steps, lockHolder, spc>>
  /\ LockFrame

\* lockfile.lock finds the lock taken after the last retry and rejects
LockGiveUp(p) ==
  /\ spc[p] = "lock"
  /\ lockHolder # 0 /\ ~LockStale
  /\ lck.tries[p] = LOCK_OPTIONS.retries
  /\ spc' = [spc EXCEPT ![p] = "failed"]
  /\ UNCHANGED <<now, steps, lockHolder, lck>>
  /\ LockFrame

\* the process dies while it holds the lock: the lock file stays and is touched no more
Crash(p) ==
  /\ spc[p] \in Locked
  /\ lockHolder = p
  /\ spc' = [spc EXCEPT ![p] = "crashed"]
  /\ lck' = [lck EXCEPT !.dead = @ \cup {p}]
  /\ UNCHANGED <<now, steps, lockHolder>>
  /\ LockFrame

\* the caller saves again
SaveAgain(p) ==
  /\ steps < MaxSteps - 1 /\ steps' = steps + 1
  /\ spc[p] \in {"done", "failed"}
  /\ spc' = [spc EXCEPT ![p] = "access"]
  /\ lck' = [lck EXCEPT !.tries[p] = 0]
  /\ UNCHANGED <<now, lockHolder>>
  /\ LockFrame

\* time passes
LockTick ==
  /\ steps < MaxSteps - 1 /\ steps' = steps + 1
  /\ now' = now + LOCK_OPTIONS.stale
  /\ lck' = [lck EXCEPT !.mtime = IF lockHolder = 0 \/ lockHolder \in lck.dead THEN @ ELSE now']
  /\ UNCHANGED <<lockHolder, spc>>
  /\ LockFrame

\* the steps of the save of process p
SaveStep(p) ==
  \/ EnsureAccess(p)
  \/ EnsureCreate(p)
  \/ LockAcquire(p)
  \/ LockRetry(p)
  \/ LockGiveUp(p)
  \/ ReadMerge(p)
  \/ WriteRename(p)
  \/ WWriteFails(p)
  \/ WUnlink(p)
  \/ Unlock(p)
  \/ WReleaseFailed(p)

NextLock ==
  \/ \E p \in StoreProcs : SaveStep(p)
  \/ Crash(2)
  \/ SaveAgain(1)
  \/ LockTick

\* every operation a save awaits completes or fails: its continuation runs
SpecLock == InitLock /\ [][NextLock]_vars /\ \A p \in StoreProcs : WF_vars(SaveStep(p))

----------------------------------------------------------------------------
(* an AccountManager that saves to and loads from the accounts file, next to a
   saveAccounts of another process *)

\* the storage saveToDisk hands to saveAccounts
saveToDisk(m) ==
  LET claudeIndex == Max(0, m.current["claude"])
      geminiIndex == Max(0, m.current["gemini"])
  IN [version |-> 3,
      accounts |-> [i \in 1..Len(m.accounts) |->
         [refreshToken |-> TokenAt[m.accounts[i].id], email |-> "", addedAt |-> 0,
          lastUsed |-> m.accounts[i].lastUsed,
          rateLimitResetTimes |-> m.accounts[i].rateLimitResetTimes,
          coolingDownUntil |-> m.accounts[i].coolingDownUntil,
          cooldownReason |-> m.accounts[i].cooldownReason]],
      activeIndex |-> claudeIndex,
      activeIndexByFamily |-> [f \in Families |->
                                 IF f = "claude" THEN claudeIndex ELSE geminiIndex]]

\* AccountManager.loadFromDisk on that file
loadFromDisk(file) ==
  LET stored == loadAccounts(file)
  IN Constructed(IF stored.found THEN stored.storage ELSE EmptyStorage)

\* collections in which a record has an empty refresh token
GappedCollections ==
  {[version |-> 3,
    accounts |-> <<StoredAccount(t, "", 0, 0, EmptyObj), StoredAccount("r2", "", 0, 0, EmptyObj)>>,
    activeIndex |-> 0] : t \in {""}}

\* what the other process saves
OtherStorages ==
  {[version |-> 3, accounts |-> <<StoredAccount("r1", "", 0, 2, rl)>>, activeIndex |-> 0] :
     rl \in {[k \in {"claude"} |-> 7]}}

InitDisk ==
  /\ now = 1 /\ steps = 0
  /\ disk \in {NoFile} \cup {FileWith(s) : s \in StoredCollections \cup GappedCollections}
  /\ \E m \in {loadFromDisk(disk)} :
       /\ accounts = m.accounts
       /\ cursor = m.cursor
       /\ currentAccountIndexByFamily = m.current
       /\ sessionOffsetApplied = m.applied
  /\ pid \in Pids
  /\ last = NoOp
  /\ lastSticky = [f \in Families |-> 0]
  /\ rrRun = [family |-> "claude", ids |-> <<>>]
  /\ hyRun = NoRun
  /\ lastMark = [id |-> 0, key |-> "claude", until |-> 0]
  /\ MergeIdle
  /\ ResIdle
  /\ ProxyIdle
  /\ lockHolder = 0
  /\ spc = [p \in StoreProcs |-> IF p = 1 THEN "done" ELSE "access"]
  /\ incoming \in {[p \in StoreProcs |-> IF p = 1 THEN EmptyStorage ELSE s] :
                     s \in OtherStorages}
  /\ merged = [p \in StoreProcs |-> EmptyStorage]
  /\ loaded = NoLoad
  /\ tmp = [p \in StoreProcs |-> NoFile]
  /\ seen = NoFile
  /\ prior = [p \in StoreProcs |-> NoFile]
  /\ lck = NoLock

DiskFrame ==
  UNCHANGED <<now, pid, lastSticky, lastMark, lockHolder, spc, incoming, merged, tmp, seen,
              prior, lck, mergeRun, resVars, proxyVars>>

\* saveToDisk: saveAccounts takes the lock, merges and writes; the promise resolves
SaveToDisk ==
  /\ steps < MaxSteps /\ steps' = steps + 1
  /\ lockHolder = 0
  /\ disk' = saveAccounts(disk, saveToDisk(Manager))
  /\ last' = [NoOp EXCEPT !.op = "saveToDisk", !.ok = TRUE, !.out = "resolved",
                          !.ret = last.ret, !.prev = IF last.op = "removeAccount" /\ last.ok
                                                     THEN 1 ELSE 0,
                          !.before = currentAccountIndexByFamily]
  /\ rrRun' = [rrRun EXCEPT !.ids = <<>>]
  /\ hyRun' = NoRun
  /\ UNCHANGED <<accounts, cursor, currentAccountIndexByFamily, sessionOffsetApplied, loaded>>
  /\ DiskFrame

\* saveToDisk while another process keeps the lock: lockfile.lock gives up, saveAccounts
\* throws, and saveToDisk, which awaits it without a catch, rejects
SaveToDiskLockFails ==
  /\ steps < MaxSteps /\ steps' = steps + 1
  /\ lockHolder # 0
  /\ last' = [NoOp EXCEPT !.op = "saveToDisk", !.ok = FALSE, !.out = "rejected",
                          !.before = currentAccountIndexByFamily]
  /\ rrRun' = [rrRun EXCEPT !.ids = <<>>]
  /\ hyRun' = NoRun
  /\ UNCHANGED <<disk, accounts, cursor, currentAccountIndexByFamily, sessionOffsetApplied,
                 loaded>>
  /\ DiskFrame

\* AccountManager.loadFromDisk: loadAccounts, then the constructor
LoadFromDisk ==
  /\ steps < MaxSteps /\ steps' = steps + 1
  /\ Install(loadFromDisk(disk))
  /\ \E r \in {loadAccounts(disk)} :
       loaded' = [op |-> "loadAccounts", read |-> disk, found |-> r.found,
                  storage |-> r.storage, saved |-> FALSE]
  /\ last' = [NoOp EXCEPT !.op = "loadFromDisk", !.ok = TRUE, !.out = "resolved",
                          !.prev = IF last.op = "saveToDisk" /\ last.ok THEN 1 ELSE 0,
                          !.before = currentAccountIndexByFamily]
  /\ rrRun' = [rrRun EXCEPT !.ids = <<>>]
  /\ hyRun' = NoRun
  /\ UNCHANGED disk
  /\ DiskFrame

DiskCalls ==
  {<<"claude", "sticky", TRUE>>, <<"gemini", "round-robin", FALSE>>}

NextDisk ==
  \/ \E c \in DiskCalls : Select(c[1], NoModel, c[2], "antigravity", c[3])
  \/ \E id \in AccountIds, d \in RetryAfters : MarkRateLimited(id, d, "claude", "antigravity", NoModel)
  \/ \E id \in AccountIds, d \in Cooldowns, reason \in Reasons :
       MarkAccountCoolingDown(id, d, reason)
  \/ \E id \in AccountIds : RemoveAccount(id)
  \/ SaveToDisk
  \/ SaveToDiskLockFails
  \/ LoadFromDisk
  \/ \E p \in {2} :
       \/ EnsureAccess(p)
       \/ EnsureCreate(p)
       \/ Lock(p)
       \/ ReadMerge(p)
       \/ WriteRename(p)
       \/ Unlock(p)

SpecDisk == InitDisk /\ [][NextDisk]_vars

----------------------------------------------------------------------------
(* two processes using the reservation file *)

InitRes ==
  /\ now = 1 /\ steps = 0
  /\ accounts = <<>> /\ cursor = 0
  /\ currentAccountIndexByFamily = [f \in Families |-> -1]
  /\ sessionOffsetApplied = [f \in Families |-> FALSE]
  /\ pid \in Pids
  /\ last = NoOp
  /\ lastSticky = [f \in Families |-> 0]
  /\ rrRun = [family |-> "claude", ids |-> <<>>]
  /\ hyRun = NoRun
  /\ lastMark = [id |-> 0, key |-> "claude", until |-> 0]
  /\ StoreIdle
  /\ MergeIdle
  /\ resFile = EmptyObj
  /\ resFileStatus \in {"missing", "unparseable"}
  /\ alive = [p \in ResProcs |-> TRUE]
  /\ cachedReservations = [p \in ResProcs |-> [valid |-> FALSE, data |-> EmptyObj]]
  /\ lastReadTime = [p \in ResProcs |-> 0]
  /\ lastFileRead = [p \in ResProcs |-> 0]
  /\ myReservations = [p \in ResProcs |-> {}]
  /\ rpend = [p \in ResProcs |-> NoPending]
  /\ rlast = NoQuery
  /\ relHist = [p \in ResProcs |-> [done |-> {}, pending |-> {}]]
  /\ ProxyIdle

\* one more call or event, within the length of the run
ResStep ==
  /\ steps < MaxSteps
  /\ steps' = steps + 1
  /\ UNCHANGED <<amVars, storeVars, mergeRun, proxyVars>>

\* the process is running and not in the middle of a write
Ready(p) == alive[p] /\ rpend[p].op = "none"

\* what readReservations leaves in the module's cache
Cached(p, data, lastRead, read) ==
  /\ cachedReservations' = [cachedReservations EXCEPT ![p] = [valid |-> TRUE, data |-> data]]
  /\ lastReadTime' = [lastReadTime EXCEPT ![p] = lastRead]
  /\ lastFileRead' = [lastFileRead EXCEPT ![p] = IF read THEN now ELSE @]

IsAccountReserved(p, accountIndex, family) ==
  /\ ResStep
  /\ Ready(p)
  /\ \E r \in {readReservations(p)} :
       /\ Cached(p, r.data, r.lastRead, r.read)
       /\ rlast' = [op |-> "isAccountReserved", p |-> p, index |-> accountIndex,
                    family |-> family,
                    ret |-> isAccountReserved(p, r.data, accountIndex, family),
                    avail |-> <<>>, total |-> 0, table |-> r.data, file |-> resFile, at |-> now,
                    alive |-> alive]
  /\ UNCHANGED <<now, resFile, resFileStatus, alive, myReservations, rpend, relHist>>

GetAvailableAccountIndices(p, totalAccounts, family) ==
  /\ ResStep
  /\ Ready(p)
  /\ \E r \in {readReservations(p)} :
       /\ Cached(p, r.data, r.lastRead, r.read)
       /\ rlast' = [op |-> "getAvailableAccountIndices", p |-> p, index |-> 0,
                    family |-> family, ret |-> FALSE,
                    avail |-> Ascending({i \in 0..(totalAccounts - 1) :
                                           ~isAccountReserved(p, r.data, i, family)}),
                    total |-> totalAccounts, table |-> r.data, file |-> resFile, at |-> now,
                    alive |-> alive]
  /\ UNCHANGED <<now, resFile, resFileStatus, alive, myReservations, rpend, relHist>>

\* reserveAccount up to its call of writeReservations
ReserveAccount(p, accountIndex, family) ==
  /\ ResStep
  /\ Ready(p)
  /\ \E r \in {readReservations(p)} :
       /\ Cached(p, r.data, r.lastRead, r.read)
       /\ rpend' = [rpend EXCEPT ![p] =
                      PendingWrite(ReserveData(p, r.data, accountIndex, family),
                                   accountIndex, FALSE)]
  /\ myReservations' = [myReservations EXCEPT ![p] = @ \cup {accountIndex}]
  /\ relHist' = [relHist EXCEPT ![p].done = @ \ {accountIndex}]
  /\ UNCHANGED <<now, resFile, resFileStatus, alive, rlast>>

\* refreshReservation up to its call of writeReservations
RefreshReservation(p, accountIndex, family) ==
  /\ ResStep
  /\ Ready(p)
  /\ \E r \in {readReservations(p)} :
       IF accountIndex \in DOMAIN r.data /\ r.data[accountIndex].pid = p
       THEN \E data \in {[r.data EXCEPT ![accountIndex].expiresAt = now + RESERVATION_TTL_MS,
                                        ![accountIndex].timestamp = now]} :
              /\ Cached(p, data, r.lastRead, r.read)
              /\ rpend' = [rpend EXCEPT ![p] = PendingWrite(data, accountIndex, FALSE)]
              /\ UNCHANGED myReservations
       ELSE /\ Cached(p, r.data, r.lastRead, r.read)
            /\ rpend' = [rpend EXCEPT ![p] =
                           PendingWrite(ReserveData(p, r.data, accountIndex, family),
                                        accountIndex, FALSE)]
            /\ myReservations' = [myReservations EXCEPT ![p] = @ \cup {accountIndex}]
  /\ relHist' = [relHist EXCEPT ![p].done = @ \ {accountIndex}]
  /\ UNCHANGED <<now, resFile, resFileStatus, alive, rlast>>

\* releaseAccount up to its call of writeReservations (none when the entry is not ours)
ReleaseAccount(p, accountIndex) ==
  /\ ResStep
  /\ Ready(p)
  /\ myReservations' = [myReservations EXCEPT ![p] = @ \ {accountIndex}]
  /\ \E r \in {readReservations(p)} :
       IF accountIndex \in DOMAIN r.data /\ r.data[accountIndex].pid = p
       THEN /\ Cached(p, ObjDelete(r.data, accountIndex), r.lastRead, r.read)
            /\ rpend' = [rpend EXCEPT ![p] =
                           PendingWrite(ObjDelete(r.data, accountIndex), accountIndex, FALSE)]
            /\ relHist' = [relHist EXCEPT ![p].pending = {accountIndex}]
       ELSE /\ Cached(p, r.data, r.lastRead, r.read)
            /\ UNCHANGED rpend
            /\ relHist' = [relHist EXCEPT ![p].done = @ \cup {accountIndex}]
  /\ UNCHANGED <<now, resFile, resFileStatus, alive, rlast>>

\* releaseAllReservations up to its call of writeReservations
ReleaseAllReservations(p) ==
  /\ ResStep
  /\ Ready(p)
  /\ myReservations[p] # {}
  /\ \E r \in {readReservations(p)} :
       LET others == {key \in DOMAIN r.data : r.data[key].pid # p}
           data == [key \in others |-> r.data[key]]
       IN IF others # DOMAIN r.data
          THEN /\ Cached(p, data, r.lastRead, r.read)
               /\ rpend' = [rpend EXCEPT ![p] = PendingWrite(data, -1, TRUE)]
               /\ UNCHANGED myReservations
               /\ relHist' = [relHist EXCEPT ![p].pending = ResIndices]
          ELSE /\ Cached(p, r.data, r.lastRead, r.read)
               /\ myReservations' = [myReservations EXCEPT ![p] = {}]
               /\ UNCHANGED rpend
               /\ relHist' = [relHist EXCEPT ![p].done = ResIndices]
  /\ UNCHANGED <<now, resFile, resFileStatus, alive, rlast>>

\* writeReservations, and what the caller does after it
WriteReservations(p) ==
  /\ alive[p]
  /\ rpend[p].op = "write"
  /\ resFile' = rpend[p].data
  /\ resFileStatus' = "json"
  /\ Cached(p, rpend[p].data, now, FALSE)
  /\ myReservations' = [myReservations EXCEPT ![p] = IF rpend[p].clearMine THEN {} ELSE @]
  /\ rpend' = [rpend EXCEPT ![p] = NoPending]
  /\ relHist' = [relHist EXCEPT ![p] = [done |-> @.done \cup @.pending, pending |-> {}]]
  /\ UNCHANGED <<now, steps, amVars, storeVars, mergeRun, proxyVars, alive, rlast>>

\* releaseAllReservationsSync: readFileSync and writeFileSync, the cache is not used
ReleaseAllReservationsSync(p) ==
  /\ ResStep
  /\ Ready(p)
  /\ myReservations[p] # {}
  /\ resFile' = [key \in {k \in DOMAIN resFile : resFile[k].pid # p} |-> resFile[key]]
  /\ UNCHANGED resFileStatus
  /\ myReservations' = [myReservations EXCEPT ![p] = {}]
  /\ relHist' = [relHist EXCEPT ![p].done = ResIndices]
  /\ UNCHANGED <<now, alive, cachedReservations, lastReadTime, lastFileRead, rpend, rlast>>

InvalidateCache(p) ==
  /\ ResStep
  /\ Ready(p)
  /\ cachedReservations' = [cachedReservations EXCEPT ![p] = [valid |-> FALSE, data |-> EmptyObj]]
  /\ lastReadTime' = [lastReadTime EXCEPT ![p] = 0]
  /\ UNCHANGED <<now, resFile, resFileStatus, alive, lastFileRead, myReservations, rpend, rlast,
                 relHist>>

\* the process dies; its reservations stay in the file
Exit(p) ==
  /\ ResStep
  /\ alive[p]
  /\ alive' = [alive EXCEPT ![p] = FALSE]
  /\ rpend' = [rpend EXCEPT ![p] = NoPending]
  /\ relHist' = [relHist EXCEPT ![p].pending = {}]
  /\ UNCHANGED <<now, resFile, resFileStatus, cachedReservations, lastReadTime, lastFileRead,
                 myReservations, rlast>>

ResTick(d) ==
  /\ ResStep
  /\ now' = now + d
  /\ UNCHANGED resVars

NextRes ==
  \/ \E p \in ResProcs, q \in ResQueries : IsAccountReserved(p, q[1], q[2])
  \/ \E p \in ResProcs, t \in ResTotals, f \in Families :
       GetAvailableAccountIndices(p, t, f)
  \/ \E p \in ResProcs, q \in ResRequests : ReserveAccount(p, q[1], q[2])
  \/ \E p \in ResProcs, q \in ResRequests : RefreshReservation(p, q[1], q[2])
  \/ \E p \in ResProcs, i \in ResIndices : ReleaseAccount(p, i)
  \/ \E p \in ResProcs : ReleaseAllReservations(p)
  \/ \E p \in ResProcs : WriteReservations(p)
  \/ \E p \in ResProcs : ReleaseAllReservationsSync(p)
  \/ \E p \in ResProcs : InvalidateCache(p)
  \/ \E p \in ResProcs : Exit(p)
  \/ \E d \in ResTickSizes : ResTick(d)

SpecRes == InitRes /\ [][NextRes]_vars

(* the read cache of one process: process 1 queries and reserves, process 2 reserves *)

\* the number of steps of a scenario of the cache
CacheSteps == 6
CacheTickSizes == {1000, CACHE_TTL_MS}

InitCache ==
  /\ now = 1 /\ steps = MaxSteps - CacheSteps
  /\ accounts = <<>> /\ cursor = 0
  /\ currentAccountIndexByFamily = [f \in Families |-> -1]
  /\ sessionOffsetApplied = [f \in Families |-> FALSE]
  /\ pid \in Pids
  /\ last = NoOp
  /\ lastSticky = [f \in Families |-> 0]
  /\ rrRun = [family |-> "claude", ids |-> <<>>]
  /\ hyRun = NoRun
  /\ lastMark = [id |-> 0, key |-> "claude", until |-> 0]
  /\ StoreIdle
  /\ MergeIdle
  /\ resFile = EmptyObj
  /\ resFileStatus = "missing"
  /\ alive = [p \in ResProcs |-> TRUE]
  /\ cachedReservations = [p \in ResProcs |-> [valid |-> FALSE, data |-> EmptyObj]]
  /\ lastReadTime = [p \in ResProcs |-> 0]
  /\ lastFileRead = [p \in ResProcs |-> 0]
  /\ myReservations = [p \in ResProcs |-> {}]
  /\ rpend = [p \in ResProcs |-> NoPending]
  /\ rlast = NoQuery
  /\ relHist = [p \in ResProcs |-> [done |-> {}, pending |-> {}]]
  /\ ProxyIdle

NextCache ==
  \/ IsAccountReserved(1, 1, "gemini")
  \/ ReserveAccount(1, 0, "gemini")
  \/ RefreshReservation(1, 0, "gemini")
  \/ ReleaseAccount(1, 0)
  \/ InvalidateCache(1)
  \/ ReserveAccount(2, 1, "gemini")
  \/ \E p \in ResProcs : WriteReservations(p)
  \/ \E d \in CacheTickSizes : ResTick(d)

SpecCache == InitCache /\ [][NextCache]_vars

----------------------------------------------------------------------------
(* fetchWithProxy called for the accounts of one process *)

\* the health state k consecutive failures leave, the last one at time t
FailedState(k, t) ==
  [failCount |-> k, lastFailTime |-> t, cooldownUntil |-> t + calculateCooldownMs(k)]

InitProxy ==
  /\ now = 400000 /\ steps = 0
  /\ accounts = <<>> /\ cursor = 0
  /\ currentAccountIndexByFamily = [f \in Families |-> -1]
  /\ sessionOffsetApplied = [f \in Families |-> FALSE]
  /\ pid \in Pids
  /\ last = NoOp
  /\ lastSticky = [f \in Families |-> 0]
  /\ rrRun = [family |-> "claude", ids |-> <<>>]
  /\ hyRun = NoRun
  /\ lastMark = [id |-> 0, key |-> "claude", until |-> 0]
  /\ StoreIdle
  /\ MergeIdle
  /\ ResIdle
  /\ dispatcherCache = {}
  /\ pcall = NoCall
  /\ \/ /\ proxyStates = EmptyObj
        /\ phist = [key \in ProxyKeys |-> [k |-> 0, t |-> 0]]
     \/ \E key \in {stateKey(0, "http://p1")}, k \in 1..Len(PROXY_COOLDOWN_PROGRESSION_MS) :
          /\ proxyStates = ObjSet(EmptyObj, key, FailedState(k, 1))
          /\ phist = [x \in ProxyKeys |-> IF x = key THEN [k |-> k, t |-> 1]
                                          ELSE [k |-> 0, t |-> 0]]

ProxyStep ==
  /\ steps < MaxSteps
  /\ steps' = steps + 1
  /\ UNCHANGED <<amVars, storeVars, mergeRun, resVars>>

\* fetchWithProxy up to its first fetch
FetchWithProxy(proxies, accountIndex) ==
  /\ ProxyStep
  /\ pcall.phase # "running"
  /\ LET acctIdx == IF accountIndex = Undefined THEN 0 ELSE accountIndex
         enabledCount == Len(EnabledProxies(proxies.list))
         available == SelectSeq(proxies.list, LAMBDA p : isAvailable(acctIdx, p))
         call == [NoCall EXCEPT !.proxies = proxies, !.accountArg = accountIndex,
                                !.acctIdx = acctIdx, !.at = now, !.before = proxyStates,
                                !.beforeCache = dispatcherCache]
     IN pcall' =
          IF ~proxies.given \/ Len(proxies.list) = 0
          THEN [call EXCEPT !.phase = "done", !.requests = <<"direct">>,
                            !.result = [NoResult EXCEPT !.kind = "direct"]]
          ELSE IF enabledCount = 0
          THEN [call EXCEPT !.phase = "done",
                            !.result = ProxyExhaustedError(acctIdx, 0)]
          ELSE IF Len(available) = 0
          THEN [call EXCEPT !.phase = "done",
                            !.result = ProxyExhaustedError(acctIdx, enabledCount)]
          ELSE [call EXCEPT !.phase = "running", !.available = available, !.pos = 1]
  /\ UNCHANGED <<now, proxyStates, dispatcherCache, phist>>

\* fetch through the current proxy resolves with a response
AttemptResponds(status) ==
  /\ pcall.phase = "running"
  /\ \E proxy \in {pcall.available[pcall.pos]} :
       /\ dispatcherCache' = dispatcherCache \cup {proxy.url}
       /\ proxyStates' = markSuccess(proxyStates, pcall.acctIdx, proxy)
       /\ phist' = [phist EXCEPT ![stateKey(pcall.acctIdx, proxy.url)] = [k |-> 0, t |-> 0]]
       /\ pcall' = [pcall EXCEPT !.phase = "done",
                                 !.requests = Append(@, proxy.url),
                                 !.result = [NoResult EXCEPT !.kind = "response",
                                                             !.status = status]]
  /\ UNCHANGED <<now, steps, amVars, storeVars, mergeRun, resVars>>

\* fetch through the current proxy rejects
AttemptThrows(error) ==
  /\ pcall.phase = "running"
  /\ \E proxy \in {pcall.available[pcall.pos]} :
       /\ dispatcherCache' = dispatcherCache \cup {proxy.url}
       /\ IF ~isProxyConnectionError(error)
          THEN /\ pcall' = [pcall EXCEPT !.phase = "done", !.caught = error,
                                         !.requests = Append(@, proxy.url),
                                         !.result = [NoResult EXCEPT !.kind = "thrown",
                                                                     !.thrown = error]]
               /\ UNCHANGED <<proxyStates, phist>>
          ELSE /\ proxyStates' = markFailed(proxyStates, pcall.acctIdx, proxy)
               /\ phist' = [phist EXCEPT ![stateKey(pcall.acctIdx, proxy.url)] =
                              [k |-> @.k + 1, t |-> now]]
               /\ pcall' =
                    IF pcall.pos < Len(pcall.available)
                    THEN [pcall EXCEPT !.pos = @ + 1, !.caught = error,
                                       !.requests = Append(@, proxy.url)]
                    ELSE [pcall EXCEPT !.phase = "done", !.caught = error,
                                       !.requests = Append(@, proxy.url),
                                       !.result = ProxyExhaustedError(pcall.acctIdx,
                                                    Len(pcall.available))]
  /\ UNCHANGED <<now, steps, amVars, storeVars, mergeRun, resVars>>

ProxyTick(d) ==
  /\ ProxyStep
  /\ now' = now + d
  /\ UNCHANGED proxyVars

ProxyTickSizes == {5000, 300000}

NextProxy ==
  \/ \E proxies \in ProxyArgs, a \in AccountArgs : FetchWithProxy(proxies, a)
  \/ \E status \in HttpStatuses : AttemptResponds(status)
  \/ \E error \in ThrownValues : AttemptThrows(error)
  \/ \E d \in ProxyTickSizes : ProxyTick(d)

SpecProxy == InitProxy /\ [][NextProxy]_vars

----------------------------------------------------------------------------
(* Properties of the AccountManager (SpecAM) *)

\* a step that is a sticky selection without the PID offset
StickyCall == last'.op = "select" /\ last'.strategy = "sticky" /\ ~last'.pidOffset

HasEligible(family, model) ==
  \E i \in 1..Len(accounts) : Eligible(accounts[i], family, model)

C1_Step ==
  StickyCall =>
    LET f == last'.family
        m == last'.model
        X == lastSticky[f]
        posX == IndexOfAccount(accounts, X)
        xEligible == posX # 0 /\ Eligible(accounts[posX], f, m)
        otherEligible == \E i \in 1..Len(accounts) :
                            i # posX /\ Eligible(accounts[i], f, m)
        Y == last'.ret
        posY == IndexOfAccount(accounts', Y)
    IN X # 0 =>
         /\ xEligible => Y = X
         /\ (~xEligible /\ otherEligible) =>
              /\ Y # 0 /\ Y # X
              /\ posY # 0 /\ Eligible(accounts'[posY], f, m)
              /\ lastSticky'[f] = Y
              /\ currentAccountIndexByFamily'[f] = posY - 1

NoExpiredEntry(account) ==
  \A k \in DOMAIN account.rateLimitResetTimes : now < account.rateLimitResetTimes[k]

\* C2: after markRateLimited(A, dt, family, headerStyle, model) at time t (and no
\* later mark), A is rate-limited for the quota key of (family, headerStyle,
\* model) exactly while now < t + dt; and a selection, which reads the limits,
\* leaves no expired entry on the account it returns (on any account when it
\* returns none).
C2_RateLimitWindow ==
  /\ lastMark.id # 0 =>
       LET pos == IndexOfAccount(accounts, lastMark.id)
       IN pos # 0 =>
            (isRateLimitedForQuotaKey(accounts[pos], lastMark.key) <=> now < lastMark.until)
  /\ (last.op = "select" /\ last.ret # 0) =>
       NoExpiredEntry(accounts[IndexOfAccount(accounts, last.ret)])
  /\ (last.op = "select" /\ last.ret = 0) =>
       \A i \in 1..Len(accounts) : NoExpiredEntry(accounts[i])

\* C2 witness: the marked window has passed, the account is selected again and
\* the expired entry is gone
C2_Witness_ExpiredAndCleared ==
  /\ lastMark.id # 0 /\ now >= lastMark.until
  /\ last.op = "select" /\ last.ret = lastMark.id
  /\ lastMark.key \notin
       DOMAIN accounts[IndexOfAccount(accounts, lastMark.id)].rateLimitResetTimes

C3_Step ==
  StickyCall =>
    LET f == last'.family
        m == last'.model
        c == getCurrentAccountForFamily(Manager, f)
        Y == last'.ret
        posY == IndexOfAccount(accounts', Y)
    IN (c # 0 /\ isRateLimitedForFamily(accounts[c], f, m)) =>
         /\ Y # accounts[c].id
         /\ HasEligible(f, m) =>
              /\ Y # 0 /\ Eligible(accounts'[posY], f, m)
              /\ currentAccountIndexByFamily'[f] = posY - 1
         /\ ~HasEligible(f, m) =>
              /\ Y = 0
              /\ currentAccountIndexByFamily'[f] = currentAccountIndexByFamily[f]

C3_OriginalStep ==
  StickyCall =>
    LET f == last'.family
        c == getCurrentAccountForFamily(Manager, f)
        key == getQuotaKey(f, last'.headerStyle, last'.model)
    IN (c # 0 /\ isRateLimitedForQuotaKey(accounts[c], key)) => last'.ret # accounts[c].id

C4_RoundRobinVisitsEachOnce ==
  LET n == Len(accounts)
      k == Len(rrRun.ids)
      w == Min(n, k)
      window == {rrRun.ids[i] : i \in (k - w + 1)..k}
  IN Cardinality(window) = w

\* C4 witness: a full round over a pool of at least two accounts
C4_Witness_FullRound ==
  /\ Len(accounts) >= 2
  /\ Len(rrRun.ids) >= Len(accounts)
  /\ last.op = "select" /\ last.strategy = "round-robin"

C5_Step ==
  last'.op = "removeAccount" =>
    LET n == Len(accounts)
        pos == last'.arg
        ptr == currentAccountIndexByFamily
    IN IF last'.ok
       THEN /\ pos \in 1..n /\ accounts[pos].id = last'.ret
            /\ Len(accounts') = n - 1
            /\ \A i \in 1..(n - 1) :
                 /\ accounts'[i].index = i - 1
                 /\ accounts'[i].id = IF i < pos THEN accounts[i].id ELSE accounts[i + 1].id
            /\ IF n = 1 THEN cursor' = 0 ELSE cursor' \in 0..(n - 2)
            /\ \A f \in Families :
                 /\ ptr'[f] = -1 \/ ptr'[f] \in 0..(n - 2)
                 /\ (ptr[f] > pos - 1 /\ ptr[f] <= n - 1) =>
                      /\ ptr'[f] >= 0
                      /\ accounts'[ptr'[f] + 1].id = accounts[ptr[f] + 1].id
       ELSE /\ \A i \in 1..n : accounts[i].id # last'.ret
            /\ UNCHANGED <<accounts, cursor, currentAccountIndexByFamily,
                           sessionOffsetApplied>>

\* C5: removeAccount on a member of a pool of size N returns true and leaves the
\* other N-1 accounts in order with index fields 0..N-2, the cursor in 0..N-2 (0
\* when the pool is now empty) and each family pointer -1 or in 0..N-2; a pointer
\* that designated an account after the removed one still designates it;
\* removeAccount on an account that is not in the pool returns false and changes
\* nothing.
C5_RemoveRenumbers == [][C5_Step]_vars

\* C5 witness: a removal in front of the account a family pointer designated
C5_Witness_PointerShifted ==
  /\ last.op = "removeAccount" /\ last.ok
  /\ \E f \in Families : last.before[f] > last.arg - 1
                         /\ currentAccountIndexByFamily[f] = last.before[f] - 1

\* C6 as stated: when removeAccount removes the account that is the current
\* account of a family, that family's pointer is -1 afterwards.
C6_RemovedCurrentIsCleared ==
  \A f \in Families :
    (last.op = "removeAccount" /\ last.ok /\ last.before[f] = last.arg - 1)
      => currentAccountIndexByFamily[f] = -1

----------------------------------------------------------------------------
(* Properties of the account store (SpecMerge, SpecStore) *)

RecordOf(storage, token) == storage.accounts[TokenPos(storage.accounts, token)]

Holds(storage, token) == TokenPos(storage.accounts, token) # 0

\* C7 as stated: for two stored states A and B holding the same account, the
\* account's rateLimitResetTimes after merging A into B equals the one after
\* merging B into A, also when A and B hold different reset times for the same
\* quota key, and lastUsed is the maximum of the two in both orders.
C7_MergeCommutesOnRateLimits ==
  mergeRun.done = {"AB", "BA"} =>
    \A token \in {"r1", "r2"} :
      (Holds(mergeRun.A, token) /\ Holds(mergeRun.B, token)) =>
        /\ RecordOf(mergeRun.AB, token).rateLimitResetTimes
             = RecordOf(mergeRun.BA, token).rateLimitResetTimes
        /\ RecordOf(mergeRun.AB, token).lastUsed
             = Max(RecordOf(mergeRun.A, token).lastUsed,
                   RecordOf(mergeRun.B, token).lastUsed)
        /\ RecordOf(mergeRun.BA, token).lastUsed
             = RecordOf(mergeRun.AB, token).lastUsed

InCritical(p) == spc[p] \in {"read", "write", "unlock"}

\* the lastUsed values the two saves carry for a refresh token
SavedLastUsed(token) ==
  {RecordOf(incoming[p], token).lastUsed :
     p \in {q \in StoreProcs : Holds(incoming[q], token)}}

\* a saved account whose e-mail address no other saved account carries (the
\* dedupe by e-mail on read keeps only the newest record of an address)
SoleOfEmail(a) ==
  \A q \in StoreProcs : \A j \in 1..Len(incoming[q].accounts) :
    incoming[q].accounts[j].email = a.email
      => incoming[q].accounts[j].refreshToken = a.refreshToken

\* C8 as stated: the read-merge-write sections of two concurrent saveAccounts
\* calls never overlap, and once both saves have completed the record on disk of
\* every saved account (one record per e-mail address) has each quota key either
\* process saved and lastUsed equal to the larger of the saved values.
C8_ConcurrentSavesDoNotClobber ==
  /\ \A p \in StoreProcs, q \in StoreProcs :
       p # q => ~(InCritical(p) /\ InCritical(q))
  /\ (\A p \in StoreProcs : spc[p] = "done") =>
       \A p \in StoreProcs :
         \A i \in 1..Len(incoming[p].accounts) :
           LET a == incoming[p].accounts[i]
           IN SoleOfEmail(a) =>
              /\ disk.exists
              /\ Holds(disk.content, a.refreshToken)
              /\ DOMAIN a.rateLimitResetTimes
                   \subseteq DOMAIN RecordOf(disk.content, a.refreshToken).rateLimitResetTimes
              /\ \A v \in SavedLastUsed(a.refreshToken) :
                   RecordOf(disk.content, a.refreshToken).lastUsed >= v
              /\ RecordOf(disk.content, a.refreshToken).lastUsed
                   \in SavedLastUsed(a.refreshToken)

----------------------------------------------------------------------------
(* Properties of the reservation table (SpecRes) *)

\* an entry for account i that blocks process p asking for the family, at time t
Blocks(table, i, p, family, t, live) ==
  /\ i \in DOMAIN table
  /\ t < table[i].expiresAt
  /\ table[i].pid # p
  /\ live[table[i].pid]
  /\ table[i].family = family

\* C9: isAccountReserved(i, family) called by process p returns true iff the
\* reservation table the call read has an entry for account i that is unexpired
\* (now < expiresAt), owned by another PID, whose owner is alive, and of the
\* queried family; getAvailableAccountIndices(total, family) returns exactly the
\* ascending list of the indices i < total for which that is false.
C9_ReservedIffBlockingEntry ==
  /\ rlast.op = "isAccountReserved" =>
       (rlast.ret <=> Blocks(rlast.table, rlast.index, rlast.p, rlast.family,
                             rlast.at, rlast.alive))
  /\ rlast.op = "getAvailableAccountIndices" =>
       /\ \A k \in 1..Len(rlast.avail) :
            /\ rlast.avail[k] \in 0..(rlast.total - 1)
            /\ ~Blocks(rlast.table, rlast.avail[k], rlast.p, rlast.family,
                       rlast.at, rlast.alive)
            /\ \A j \in 1..(k - 1) : rlast.avail[j] < rlast.avail[k]
       /\ \A i \in 0..(rlast.total - 1) :
            Blocks(rlast.table, i, rlast.p, rlast.family, rlast.at, rlast.alive)
              \/ \E k \in 1..Len(rlast.avail) : rlast.avail[k] = i

\* C9 witness: a process is told that an account is reserved, by the live
\* reservation of the other process
C9_Witness_BlockedByOther ==
  /\ rlast.op = "isAccountReserved" /\ rlast.ret
  /\ rlast.table[rlast.index].pid # rlast.p

C10_Step ==
  \A p \in ResProcs :
    (rpend[p].op = "write" /\ rpend'[p].op = "none" /\ alive'[p]) =>
      \A i \in DOMAIN resFile :
        (/\ resFile[i].pid # p
         /\ alive[resFile[i].pid]
         /\ now < resFile[i].expiresAt
         /\ i # rpend[p].target)
          => (i \in DOMAIN resFile' /\ resFile'[i] = resFile[i])

\* C10 as stated: no write to the reservation file made by a process for its
\* reserve, refresh, release or releaseAll removes a live, unexpired reservation
\* that another live process holds on a different account index.
C10_WritesKeepOthersReservations == [][C10_Step]_vars

\* every table a process can read: the file, the caches and the prepared writes
AllTables ==
  {resFile} \cup {cachedReservations[p].data : p \in ResProcs}
            \cup {rpend[p].data : p \in ResProcs}

\* the entry of the queried account in a table, as seen by the querying process
Held(table) ==
  /\ rlast.index \in DOMAIN table
  /\ table[rlast.index].pid # rlast.p
  /\ table[rlast.index].family = rlast.family

C11_Reclaimed ==
  /\ \A table \in AllTables : \A i \in DOMAIN table :
       /\ table[i].expiresAt = table[i].timestamp + RESERVATION_TTL_MS
       /\ table[i].timestamp <= now
  /\ rlast.op = "isAccountReserved" =>
       /\ (Held(rlast.table) /\ ~rlast.alive[rlast.table[rlast.index].pid]) => ~rlast.ret
       /\ (Held(rlast.table)
             /\ rlast.at >= rlast.table[rlast.index].timestamp + RESERVATION_TTL_MS)
            => ~rlast.ret

\* C11 (amended): a reservation whose owner has died does not block the very
\* next query of another process, whatever its TTL; every reservation expires
\* RESERVATION_TTL_MS after it was written or refreshed and does not block from
\* then on, even if its owner is alive and never releases it; conversely a live
\* owner's unexpired reservation blocks every query of another process, for the
\* same family, whose table (the file, or the process's cache of it when less
\* than CACHE_TTL_MS old) contains it.
C11_NoLeaseBlocksForever ==
  /\ C11_Reclaimed
  /\ (/\ rlast.op = "isAccountReserved"
      /\ Held(rlast.table)
      /\ rlast.alive[rlast.table[rlast.index].pid]
      /\ rlast.at < rlast.table[rlast.index].expiresAt) => rlast.ret

\* C11 as stated: as above, but a live owner's unexpired reservation that is in
\* the reservation file blocks every query of another process until its TTL.
C11_Original_FileEntryBlocks ==
  /\ C11_Reclaimed
  /\ (/\ rlast.op = "isAccountReserved"
      /\ Held(rlast.file)
      /\ rlast.alive[rlast.file[rlast.index].pid]
      /\ rlast.at < rlast.file[rlast.index].expiresAt) => rlast.ret

\* C11 witness: the owner of an unexpired reservation has died and the other
\* process's query is not blocked by it
C11_Witness_DeadOwner ==
  /\ rlast.op = "isAccountReserved" /\ ~rlast.ret
  /\ Held(rlast.table)
  /\ ~rlast.alive[rlast.table[rlast.index].pid]
  /\ rlast.at < rlast.table[rlast.index].expiresAt

\* C12 as stated: once releaseAccount(i) has completed the process does not
\* track i as its own and the file holds no entry for i owned by it; once
\* releaseAllReservations (async or sync) has completed its own set is empty and
\* the file holds no entry of its pid; this stays so, whatever other processes
\* write, until the process reserves the account again.
C12_ReleasedStaysReleased ==
  \A p \in ResProcs :
    (alive[p] /\ rpend[p].op = "none") =>
      \A i \in relHist[p].done :
        /\ i \notin myReservations[p]
        /\ ~(i \in DOMAIN resFile /\ resFile[i].pid = p)

----------------------------------------------------------------------------
(* Properties of fetchWithProxy (SpecProxy) *)

\* the call was given a non-empty proxy list
Configured == pcall.proxies.given /\ Len(pcall.proxies.list) > 0

\* every proxy of the call's list is disabled
AllDisabled == \A i \in 1..Len(pcall.proxies.list) : pcall.proxies.list[i].enabled = FALSE

\* the accountIndex the caller passed, 0 when it passed none
CallerAccount == IF pcall.accountArg = Undefined THEN 0 ELSE pcall.accountArg

\* C13: fail closed. A call with a non-empty proxy list never issues a request
\* without a proxy dispatcher; when every proxy of the list is disabled the call
\* ends with ProxyExhaustedError carrying proxyCount 0 and the caller's
\* accountIndex, makes no request and creates neither health state nor
\* dispatcher; only an absent or empty list leads to a direct fetch.
C13_FailClosed ==
  /\ Configured =>
       \A i \in 1..Len(pcall.requests) :
         \E j \in 1..Len(pcall.proxies.list) :
           /\ pcall.requests[i] = pcall.proxies.list[j].url
           /\ pcall.proxies.list[j].enabled # FALSE
  /\ (Configured /\ AllDisabled /\ pcall.phase # "idle") =>
       /\ pcall.phase = "done"
       /\ pcall.result.kind = "ProxyExhaustedError"
       /\ pcall.result.proxyCount = 0
       /\ pcall.result.accountIndex = CallerAccount
       /\ pcall.requests = <<>>
       /\ proxyStates = pcall.before
       /\ dispatcherCache = pcall.beforeCache
  /\ (pcall.result.kind = "direct" \/ \E i \in 1..Len(pcall.requests) : pcall.requests[i] = "direct")
       => ~Configured

C13_Witness_AllDisabled ==
  /\ Configured /\ AllDisabled /\ Len(pcall.proxies.list) = 2
  /\ pcall.accountArg = 1
  /\ pcall.result.kind = "ProxyExhaustedError"

\* the cooldown ladder: 5 s, 15 s, 60 s, then 300 s for every further failure
Ladder(k) == IF k = 1 THEN 5000 ELSE IF k = 2 THEN 15000 ELSE IF k = 3 THEN 60000 ELSE 300000

\* C14: for every (account, proxy) pair, the k-th consecutive connection failure,
\* recorded at time t, leaves failCount = k and cooldownUntil = t + Ladder(k), and
\* a successful request through the proxy deletes the pair's state.
C14_CooldownLadder ==
  \A key \in ProxyKeys :
    IF phist[key].k = 0
    THEN key \notin DOMAIN proxyStates
    ELSE /\ key \in DOMAIN proxyStates
         /\ proxyStates[key].failCount = phist[key].k
         /\ proxyStates[key].lastFailTime = phist[key].t
         /\ proxyStates[key].cooldownUntil = phist[key].t + Ladder(phist[key].k)

C14_Witness_FifthFailure ==
  \E key \in ProxyKeys :
    /\ phist[key].k = 5
    /\ phist[key].t = now
    /\ proxyStates[key].cooldownUntil = now + 300000

\* the pair was in cooldown when the call started
CoolingAtStart(url) ==
  /\ stateKey(CallerAccount, url) \in DOMAIN pcall.before
  /\ pcall.at < pcall.before[stateKey(CallerAccount, url)].cooldownUntil

\* the URLs of the call's list, in configured order, that are enabled and were
\* not in cooldown when the call started
Candidates ==
  LET kept == SelectSeq(pcall.proxies.list,
                        LAMBDA p : p.enabled # FALSE /\ ~CoolingAtStart(p.url))
  IN [i \in 1..Len(kept) |-> kept[i].url]

\* the failure of the call's i-th request is on record
FailureRecorded(i) ==
  LET key == stateKey(CallerAccount, pcall.requests[i])
  IN /\ key \in DOMAIN proxyStates
     /\ proxyStates[key].failCount =
          (IF key \in DOMAIN pcall.before THEN pcall.before[key].failCount ELSE 0) + 1
     /\ proxyStates[key].lastFailTime >= pcall.at

\* C15: a call with a non-empty list contacts the proxies that are enabled and
\* not in cooldown (a proxy whose cooldownUntil has been reached is a candidate
\* again), in configured order; each connection failure is recorded before the
\* next proxy is tried; the first response ends the call and no later proxy is
\* contacted.
C15_FailoverInOrder ==
  Configured =>
    /\ Len(pcall.requests) <= Len(Candidates)
    /\ pcall.requests = SubSeq(Candidates, 1, Len(pcall.requests))
    /\ pcall.phase = "running" =>
         /\ pcall.pos = Len(pcall.requests) + 1
         /\ \A i \in 1..Len(pcall.requests) : FailureRecorded(i)
    /\ pcall.result.kind = "response" =>
         /\ pcall.phase = "done"
         /\ Len(pcall.requests) >= 1
         /\ \A i \in 1..(Len(pcall.requests) - 1) : FailureRecorded(i)
    /\ pcall.result.kind = "ProxyExhaustedError" =>
         /\ pcall.requests = Candidates
         /\ \A i \in 1..Len(pcall.requests) : FailureRecorded(i)

C15_Witness_SecondProxyAnswers ==
  /\ pcall.result.kind = "response"
  /\ pcall.requests = <<"socks5://p2", "http://p1">>
  /\ stateKey(0, "http://p1") \in DOMAIN pcall.before
  /\ pcall.at > 400000

\* C16: a call with m available proxies makes at most one attempt per available
\* proxy: every attempt either ends the call or leaves fewer than m attempts
\* made, and the call ends with the response, with the non-connection error it
\* caught, or, after m failed attempts, with ProxyExhaustedError carrying
\* proxyCount = m and each attempted proxy's failCount one higher than before.
C16_Attempt ==
  (pcall.phase = "running" /\ pcall' # pcall) =>
    /\ Len(pcall.requests) < Len(Candidates)
    /\ pcall'.requests = Append(pcall.requests, Candidates[Len(pcall.requests) + 1])
    /\ \A i \in 1..Len(pcall.requests) : pcall.requests[i] # pcall'.requests[Len(pcall'.requests)]
    /\ pcall'.phase \in {"running", "done"}
    /\ pcall'.phase = "running" => Len(pcall'.requests) < Len(Candidates)
    /\ pcall'.phase = "done" =>
         \/ pcall'.result.kind = "response"
         \/ pcall'.result.kind = "thrown" /\ pcall'.result.thrown \in ThrownValues
         \/ /\ pcall'.result.kind = "ProxyExhaustedError"
            /\ pcall'.result.proxyCount = Len(Candidates)
            /\ pcall'.result.accountIndex = CallerAccount
            /\ Len(pcall'.requests) = Len(Candidates)
            /\ \A i \in 1..Len(pcall'.requests) : FailureRecorded(i)'

C16_OneAttemptPerProxy == [][C16_Attempt]_vars

C16_Witness_Exhausted ==
  /\ pcall.result.kind = "ProxyExhaustedError"
  /\ pcall.result.proxyCount = 2
  /\ Len(pcall.requests) = 2
  /\ pcall.accountArg = 1

\* the enabled proxies of the call's list
EnabledOfCall == SelectSeq(pcall.proxies.list, LAMBDA p : p.enabled # FALSE)

\* C17: when the list has enabled proxies and every one of them is in cooldown
\* for the account, the call ends with ProxyExhaustedError whose proxyCount is
\* the number of enabled proxies, without any request and with the health state
\* unchanged.
C17_AllCoolingDown ==
  (/\ Configured
   /\ pcall.phase # "idle"
   /\ Len(EnabledOfCall) > 0
   /\ \A i \in 1..Len(EnabledOfCall) : CoolingAtStart(EnabledOfCall[i].url)) =>
    /\ pcall.phase = "done"
    /\ pcall.result.kind = "ProxyExhaustedError"
    /\ pcall.result.proxyCount = Len(EnabledOfCall)
    /\ pcall.result.accountIndex = CallerAccount
    /\ pcall.requests = <<>>
    /\ proxyStates = pcall.before
    /\ dispatcherCache = pcall.beforeCache

C17_Witness_OnlyEnabledCooling ==
  /\ Len(pcall.proxies.list) = 2
  /\ Len(EnabledOfCall) = 1
  /\ CoolingAtStart(EnabledOfCall[1].url)
  /\ pcall.result.kind = "ProxyExhaustedError"
  /\ pcall.result.proxyCount = 1

\* the call ended with an HTTP response of an error status
ErrorStatusReturned ==
  /\ pcall.phase = "done"
  /\ pcall.result.kind = "response"
  /\ pcall.result.status >= 400

\* the health state of the pair is what it was when the call started
SameAsBefore(key) ==
  IF key \in DOMAIN pcall.before
  THEN key \in DOMAIN proxyStates /\ proxyStates[key] = pcall.before[key]
  ELSE key \notin DOMAIN proxyStates

\* C18: a response with an error status is returned as it is, is never counted
\* as a failure of the proxy that delivered it and ends the call without any
\* later proxy being contacted; the delivering proxy's health state is cleared
\* as on any success, the proxies that failed earlier in the same call keep the
\* failure recorded, and every other (account, proxy) pair is untouched.
C18_ErrorStatusPassesThrough ==
  ErrorStatusReturned =>
    LET n == Len(pcall.requests)
    IN /\ n >= 1
       /\ pcall.requests = SubSeq(Candidates, 1, n)
       /\ pcall.result.status \in HttpStatuses
       /\ stateKey(CallerAccount, pcall.requests[n]) \notin DOMAIN proxyStates
       /\ \A i \in 1..(n - 1) : FailureRecorded(i)
       /\ \A key \in ProxyKeys :
            (\A i \in 1..n : key # stateKey(CallerAccount, pcall.requests[i]))
              => SameAsBefore(key)

\* C18 as stated: after an error-status response every pair's health state is
\* the same as before the call, whatever it was.
C18_Original_HealthUntouched ==
  ErrorStatusReturned => \A key \in ProxyKeys : SameAsBefore(key)

C18_Witness_StateCleared ==
  /\ ErrorStatusReturned
  /\ Len(pcall.requests) = 1
  /\ stateKey(CallerAccount, pcall.requests[1]) \in DOMAIN pcall.before
  /\ stateKey(CallerAccount, pcall.requests[1]) \notin DOMAIN proxyStates

\* entry i of the error's cause chain carries a connection error code or a
\* proxy-related message
ProxyMarked(error, i) ==
  \/ error.chain[i].code \in PROXY_ERROR_CODES
  \/ ToLowerCase(error.chain[i].message) \in {"proxy connection failed", "socket hang up"}

\* the chain entries the classification looks at: the error and four causes
Inspected(error) == 1..Min(Len(error.chain), 5)

\* connection-class: a thrown value that is not an Error, or an error with a
\* marked entry among the inspected ones that no AbortError precedes
ConnectionClass(error) ==
  \/ ~error.isError
  \/ \E i \in Inspected(error) :
       /\ ProxyMarked(error, i)
       /\ \A j \in 1..i : error.chain[j].name # "AbortError"

\* a step of a running call in which its fetch rejected
AttemptRejected ==
  /\ pcall.phase = "running"
  /\ pcall'.requests # pcall.requests
  /\ pcall'.result.kind # "response"

\* the rejection was rethrown: same error, call over, health untouched
Rethrown ==
  /\ pcall'.phase = "done"
  /\ pcall'.result.kind = "thrown"
  /\ pcall'.result.thrown = pcall'.caught
  /\ proxyStates' = proxyStates
  /\ phist' = phist

\* the rejection was absorbed: failure recorded, next proxy or exhaustion
FailedOver ==
  /\ pcall'.result.kind # "thrown"
  /\ \A n \in {Len(pcall'.requests)} : FailureRecorded(n)'
  /\ \/ pcall'.phase = "running" /\ pcall'.pos = pcall.pos + 1
     \/ pcall'.phase = "done" /\ pcall'.result.kind = "ProxyExhaustedError"

\* C19: an error that is not connection-class is rethrown unchanged, no further
\* proxy is tried and no health state is created or modified; a connection-class
\* error triggers failover and health tracking. Connection-class is: a thrown
\* value that is not an Error, or an error whose chain (itself and up to four
\* causes) has an entry with a connection error code or proxy-related message
\* that is not preceded in the chain by an AbortError.
C19_Classified ==
  AttemptRejected =>
    IF ConnectionClass(pcall'.caught) THEN FailedOver ELSE Rethrown

C19_ErrorClassification == [][C19_Classified]_vars

\* C19 as stated: an AbortError, or an error with no proxy code or message
\* anywhere in its cause chain, is rethrown; an error whose chain up to depth 4
\* contains a connection error code fails over.
C19_Original_Classified ==
  AttemptRejected =>
    LET e == pcall'.caught
    IN /\ (/\ e.isError
           /\ \/ e.chain[1].name = "AbortError"
              \/ \A i \in 1..Len(e.chain) : ~ProxyMarked(e, i)) => Rethrown
       /\ (/\ e.isError
           /\ \E i \in Inspected(e) : e.chain[i].code \in PROXY_ERROR_CODES) => FailedOver

C19_Original_CodeInChainFailsOver == [][C19_Original_Classified]_vars

C19_Witness_DeepCauseFailsOver ==
  /\ pcall.phase = "running"
  /\ Len(pcall.requests) = 1
  /\ Len(pcall.caught.chain) = 5
  /\ pcall.caught.chain[5].code = "ECONNRESET"
  /\ stateKey(CallerAccount, pcall.requests[1]) \in DOMAIN proxyStates

\* the health state of the pair, as the set of the states it has (none or one)
HealthOf(key) == {proxyStates[k] : k \in {key} \cap DOMAIN proxyStates}

\* the pair is not in cooldown
AvailableNow(key) == key \notin DOMAIN proxyStates \/ now >= proxyStates[key].cooldownUntil

\* C20: proxy health is isolated per (accountIndex, proxyUrl). A step that records
\* a failure or a success for account a on proxy p changes neither the health
\* state nor the availability of p for any other account, nor of any other
\* proxy of account a: the only pair whose state changes is (a, p).
C20_OnlyThePairChanges ==
  \A key \in ProxyKeys :
    \/ /\ pcall.phase = "running"
       /\ pcall'.requests # pcall.requests
       /\ key = <<CallerAccount, pcall'.requests[Len(pcall'.requests)]>>
    \/ /\ HealthOf(key)' = HealthOf(key)
       /\ now' = now => (AvailableNow(key)' <=> AvailableNow(key))

C20_HealthIsolated == [][C20_OnlyThePairChanges]_vars

C20_Witness_OtherAccountKeepsState ==
  /\ pcall.result.kind = "response"
  /\ pcall.accountArg = Undefined
  /\ pcall.requests = <<"http://p1">>
  /\ <<1, "http://p1">> \in DOMAIN proxyStates
  /\ <<0, "http://p1">> \in DOMAIN pcall.before
  /\ <<0, "http://p1">> \notin DOMAIN proxyStates

----------------------------------------------------------------------------
(* Properties of the wait and pool queries (SpecWait) *)

\* C21: getMinWaitTimeForFamily returns 0 whenever at least one account is
\* eligible for the family; in particular, with two accounts of which the first
\* is rate-limited for claude, the sticky selection for claude returns the
\* second account and the wait asked immediately afterwards is 0.
C21_NoWaitWhileEligible ==
  /\ (/\ last.op = "getMinWaitTimeForFamily"
      /\ \E i \in 1..Len(accounts) : Eligible(accounts[i], last.family, last.model))
       => last.ret = 0
  /\ (/\ last.op = "select" /\ last.family = "claude"
      /\ Len(accounts) = 2
      /\ isRateLimitedForQuotaKey(accounts[1], "claude")
      /\ Eligible(accounts[2], "claude", NoModel))
       => /\ last.ret = accounts[2].id
          /\ currentAccountIndexByFamily["claude"] = 1

C21_Witness_SwitchedThenNoWait ==
  /\ last.op = "getMinWaitTimeForFamily" /\ last.family = "claude"
  /\ last.ret = 0
  /\ Len(accounts) = 2
  /\ isRateLimitedForQuotaKey(accounts[1], "claude")
  /\ lastSticky["claude"] = accounts[2].id
  /\ currentAccountIndexByFamily["claude"] = 1

\* the time until the reset time recorded under the key, 0 when none is pending
Remaining(account, key) ==
  IF key \in DOMAIN account.rateLimitResetTimes
  THEN Max(0, account.rateLimitResetTimes[key] - now) ELSE 0

\* the time until the pool stops being limited for the model: the pool is limited
\* while its model-specific key or its pool-wide key is
PoolRemaining(account, headerStyle, model) ==
  Max(Remaining(account, getQuotaKey("gemini", headerStyle, model)),
      Remaining(account, getQuotaKey("gemini", headerStyle, NoModel)))

\* the time until the account stops being rate-limited for the family
TimeUntilFree(account, family, model) ==
  IF family = "claude" THEN Remaining(account, "claude")
  ELSE Min(PoolRemaining(account, "antigravity", model),
           PoolRemaining(account, "gemini-cli", model))

\* C22: when every account is rate-limited for the family and model,
\* getMinWaitTimeForFamily returns the minimum over the accounts of the time
\* until the account stops being rate-limited for the family (for Gemini the
\* smaller of its two pools' remaining times, each pool counting its
\* model-specific and its pool-wide key); the result is therefore positive.
C22_MinWaitIsTimeUntilFree ==
  (/\ last.op = "getMinWaitTimeForFamily"
   /\ Len(accounts) > 0
   /\ \A i \in 1..Len(accounts) : isRateLimitedForFamily(accounts[i], last.family, last.model))
    => /\ last.ret = SetMin({TimeUntilFree(accounts[i], last.family, last.model) :
                               i \in 1..Len(accounts)})
       /\ last.ret > 0

\* the Gemini pool of the header style is rate-limited for the model
PoolLimited(account, headerStyle, model) == PoolRemaining(account, headerStyle, model) > 0

\* C23: for Gemini an account is rate-limited for the family iff both pools,
\* antigravity and gemini-cli, are rate-limited for the model;
\* getAvailableHeaderStyle returns antigravity if that pool is usable, otherwise
\* gemini-cli if that pool is usable, otherwise null, hence null exactly when
\* the account is rate-limited for the family. For Claude it returns antigravity
\* when the claude key is not limited and null otherwise.
C23_AvailableHeaderStyle ==
  /\ \A i \in 1..Len(accounts) : \A model \in Models :
       isRateLimitedForFamily(accounts[i], "gemini", model)
         <=> (PoolLimited(accounts[i], "antigravity", model)
              /\ PoolLimited(accounts[i], "gemini-cli", model))
  /\ last.op = "getAvailableHeaderStyle" =>
       LET a == accounts[IndexOfAccount(accounts, last.ret)]
       IN /\ last.family = "gemini" =>
               last.out = (IF ~PoolLimited(a, "antigravity", last.model) THEN "antigravity"
                           ELSE IF ~PoolLimited(a, "gemini-cli", last.model) THEN "gemini-cli"
                           ELSE NoStyle)
          /\ last.family = "claude" =>
               last.out = (IF Remaining(a, "claude") > 0 THEN NoStyle ELSE "antigravity")
          /\ last.out = NoStyle <=> isRateLimitedForFamily(a, last.family, last.model)

C23_Witness_FallbackToCli ==
  /\ last.op = "getAvailableHeaderStyle"
  /\ last.family = "gemini" /\ last.model = "m1"
  /\ last.out = "gemini-cli"
  /\ "gemini-antigravity" \in DOMAIN accounts[IndexOfAccount(accounts, last.ret)].rateLimitResetTimes

----------------------------------------------------------------------------
(* Properties of selection with cooldowns, freshness and PID offset (SpecSel) *)

\* the step now taken is the operation op
Did(op) == steps' = steps + 1 /\ last'.op = op

\* the account has a cooldown deadline that has not been reached
CoolingNow(account) ==
  account.coolingDownUntil # Undefined /\ now < account.coolingDownUntil

\* C24: markAccountCoolingDown(a, ms, reason) at time t sets one deadline t + ms
\* for the account, whatever the family: until a later mark replaces it,
\* isAccountCoolingDown(a) is true exactly while now < t + ms, no selection of
\* either family under any strategy returns a during that time, and the first
\* query at or after the deadline returns false and deletes coolingDownUntil and
\* cooldownReason, so getAccountCooldownReason returns undefined.
C24_Cooldown ==
  \A pos \in 1..Len(accounts) :
    LET a == accounts[pos]
        b == accounts'[pos]
    IN /\ Len(accounts') = Len(accounts)
       /\ (Did("markAccountCoolingDown") /\ last'.ret = a.id) =>
            /\ b.coolingDownUntil = now + last'.arg
            /\ b.cooldownReason \in Reasons
       /\ (Did("isAccountCoolingDown") /\ last'.ret = a.id) =>
            /\ last'.ok <=> CoolingNow(a)
            /\ IF CoolingNow(a) THEN b = a
               ELSE b.coolingDownUntil = Undefined /\ b.cooldownReason = NoReason
       /\ (Did("getAccountCooldownReason") /\ last'.ret = a.id) =>
            /\ last'.out = (IF CoolingNow(a) THEN a.cooldownReason ELSE NoReason)
            /\ IF CoolingNow(a) THEN b = a
               ELSE b.coolingDownUntil = Undefined /\ b.cooldownReason = NoReason
       /\ (Did("select") /\ last'.ret = a.id) => ~CoolingNow(a)
       /\ b.coolingDownUntil # a.coolingDownUntil =>
            \/ Did("markAccountCoolingDown") /\ last'.ret = a.id
            \/ /\ ~CoolingNow(a)
               /\ b.coolingDownUntil = Undefined /\ b.cooldownReason = NoReason

C24_CooldownDeadline == [][C24_Cooldown]_vars

C24_Witness_ClearedAtDeadline ==
  /\ last.op = "isAccountCoolingDown"
  /\ ~last.ok
  /\ last.prev # Undefined
  /\ now = last.prev
  /\ accounts[IndexOfAccount(accounts, last.ret)].coolingDownUntil = Undefined
  /\ accounts[IndexOfAccount(accounts, last.ret)].cooldownReason = NoReason

\* the account is fresh for the key: never touched for it, or last touched
\* before the reset time now pending under the key
FreshFor(account, key) ==
  \/ key \notin DOMAIN account.touchedForQuota
  \/ /\ key \in DOMAIN account.rateLimitResetTimes
     /\ now < account.rateLimitResetTimes[key]
     /\ account.touchedForQuota[key] < account.rateLimitResetTimes[key]

\* the account may be selected for the family
EligibleNow(account, family, model) ==
  ~isRateLimitedForFamily(account, family, model) /\ ~CoolingNow(account)

\* the ids of a run are pairwise distinct
Distinct(ids) == Cardinality({ids[i] : i \in 1..Len(ids)}) = Len(ids)

\* a hybrid selection and what it must return
C25_Hybrid ==
  (Did("select") /\ last'.strategy = "hybrid") =>
    LET family == last'.family
        model == last'.model
        key == getQuotaKey(family, last'.headerStyle, model)
        fresh == {pos \in 1..Len(accounts) :
                    FreshFor(accounts[pos], key) /\ EligibleNow(accounts[pos], family, model)}
        sticky == getCurrentOrNextForFamily(Manager, family, model, "sticky",
                                            last'.headerStyle, last'.pidOffset)
    IN IF fresh # {}
       THEN \E pos \in fresh :
              /\ last'.ret = accounts[pos].id
              /\ accounts'[pos].touchedForQuota[key] = now
              /\ currentAccountIndexByFamily'[family] = accounts[pos].index
       ELSE /\ last'.ret = (IF sticky.pos = 0 THEN 0 ELSE sticky.m.accounts[sticky.pos].id)
            /\ currentAccountIndexByFamily' = sticky.m.current
            /\ cursor' = sticky.m.cursor
            /\ sessionOffsetApplied' = sticky.m.applied

\* C25: under the hybrid strategy, while some eligible account is fresh for the
\* requested quota key, the selection returns a fresh eligible account, marks
\* it touched and makes it current, and only when none remains does it behave
\* as the sticky selection; with N eligible accounts none of which was touched
\* for the key and none of which has a reset time pending under the key, N
\* consecutive hybrid selections return N distinct accounts.
C25_Step ==
  /\ C25_Hybrid
  /\ (hyRun'.plain /\ Len(hyRun'.ids) <= Len(accounts')) => Distinct(hyRun'.ids)

C25_OriginalStep ==
  /\ C25_Hybrid
  /\ Len(hyRun'.ids) <= Len(accounts') => Distinct(hyRun'.ids)

ReachesStickyPath ==
  \/ last'.strategy = "sticky"
  \/ /\ last'.strategy = "hybrid"
     /\ \A pos \in 1..Len(accounts) :
          ~(/\ FreshFor(accounts[pos], getQuotaKey(last'.family, last'.headerStyle, last'.model))
            /\ EligibleNow(accounts[pos], last'.family, last'.model))

\* the selection with the family's pointer rotated by pid mod accountCount first
SelectionAfterRotation ==
  LET family == last'.family
      n == Len(accounts)
      rotated == [Manager EXCEPT !.current[family] = JsRem(@ + (pid % n), n),
                                 !.applied[family] = TRUE]
  IN getCurrentOrNextForFamily(rotated, family, last'.model, last'.strategy,
                               last'.headerStyle, FALSE)

\* the selection as it is without the PID offset
SelectionWithoutOffset ==
  getCurrentOrNextForFamily(Manager, last'.family, last'.model, last'.strategy,
                            last'.headerStyle, FALSE)

\* the step's outcome is that of the selection r
SameOutcome(r) ==
  /\ last'.ret = (IF r.pos = 0 THEN 0 ELSE r.m.accounts[r.pos].id)
  /\ currentAccountIndexByFamily' = r.m.current
  /\ cursor' = r.m.cursor

\* what every step keeps true of the PID offset, whenever it is applied
C26_Common ==
  /\ \A f \in Families :
       /\ sessionOffsetApplied[f] => sessionOffsetApplied'[f]
       /\ currentAccountIndexByFamily'[f] \in -1..(Len(accounts') - 1)
       /\ (sessionOffsetApplied'[f] /\ ~sessionOffsetApplied[f]) =>
            /\ Did("select") /\ last'.family = f /\ last'.pidOffset
            /\ Len(accounts) > 1
            /\ SameOutcome(SelectionAfterRotation)
  /\ Did("select") =>
       /\ \A f \in Families \ {last'.family} :
            /\ sessionOffsetApplied'[f] = sessionOffsetApplied[f]
            /\ currentAccountIndexByFamily'[f] = currentAccountIndexByFamily[f]
       /\ sessionOffsetApplied[last'.family] =>
            SameOutcome(SelectionWithoutOffset)

\* C26: with pidOffsetEnabled and more than one account, the family's pointer is
\* rotated by pid mod accountCount on the first selection for the family that
\* reaches the sticky path (a sticky selection, or a hybrid one without a fresh
\* account; round-robin and hybrid-with-fresh selections do not rotate), and at
\* most once per process per family: no later selection shifts the pointer
\* again, the two families are rotated independently and the pointer is always
\* -1 or a valid index.
C26_Step ==
  /\ C26_Common
  /\ (Did("select") /\ ~sessionOffsetApplied[last'.family]) =>
       (sessionOffsetApplied'[last'.family]
          <=> (last'.pidOffset /\ Len(accounts) > 1 /\ ReachesStickyPath))

C26_PidOffsetOnce == [][C26_Step]_vars

\* C26 as stated: the rotation is applied on the first selection for the family.
C26_OriginalStep ==
  /\ C26_Common
  /\ (Did("select") /\ ~sessionOffsetApplied[last'.family]
      /\ last'.pidOffset /\ Len(accounts) > 1) => sessionOffsetApplied'[last'.family]

C26_Original_AppliedOnFirstSelection == [][C26_OriginalStep]_vars

C26_Witness_BothFamiliesRotated ==
  /\ sessionOffsetApplied["claude"] /\ sessionOffsetApplied["gemini"]
  /\ last.op = "select" /\ last.pidOffset
  /\ steps = 3

----------------------------------------------------------------------------
(* C28 *)

\* the value is a refresh token: present, a string, and not the empty string
NonEmptyToken(token) == IsString(token) /\ token # ""

\* C28: the collection loadAccounts returns holds no record whose refreshToken is
\* missing, not a string, or the empty string
C28_LoadedTokensNonEmpty ==
  loaded.op = "loadAccounts" /\ loaded.found =>
    \A i \in 1..Len(loaded.storage.accounts) :
      NonEmptyToken(loaded.storage.accounts[i].refreshToken)

----------------------------------------------------------------------------
(* C29 *)

\* the records loadAccounts hands to the deduplication: those read, minus the invalid ones
ReadAccounts == SelectSeq(loaded.read.content.accounts, LAMBDA a : IsString(a.refreshToken))

\* what identifies a record across the schema versions
Identity(a) == <<a.refreshToken, a.email, a.lastUsed, a.addedAt>>

\* (lastUsed, addedAt) of a is lexicographically above that of b
StampAbove(a, b) ==
  a.lastUsed > b.lastUsed \/ (a.lastUsed = b.lastUsed /\ a.addedAt > b.addedAt)

\* i is the earliest record with the highest (lastUsed, addedAt) among those sharing its email
IsBestOfEmail(accs, i) ==
  \A j \in 1..Len(accs) :
    accs[j].email = accs[i].email =>
      /\ ~StampAbove(accs[j], accs[i])
      /\ (~StampAbove(accs[i], accs[j]) => i <= j)

\* the positions the claim says survive
Survivors(accs) == {i \in 1..Len(accs) : accs[i].email = "" \/ IsBestOfEmail(accs, i)}

\* C29: deduplication on load keeps, in their original order, every record without an
\* email and for every email exactly the earliest record with the highest
\* (lastUsed, addedAt); deduplicating the result again changes nothing; the returned
\* activeIndex lies in 0..length-1 (0 for an empty list) and is the stored one when
\* that is in range
C29_DedupOnLoad ==
  loaded.op = "loadAccounts" /\ loaded.found =>
    LET x == ReadAccounts
        y == loaded.storage.accounts
        kept == Ascending(Survivors(x))
        stored == loaded.read.content.activeIndex
        ai == loaded.storage.activeIndex
    IN /\ Len(y) = Len(kept)
       /\ \A k \in 1..Len(y) : Identity(y[k]) = Identity(x[kept[k]])
       /\ \A e \in {x[i].email : i \in 1..Len(x)} \ {""} :
            Cardinality({k \in 1..Len(y) : y[k].email = e}) = 1
       /\ deduplicateAccountsByEmail(y) = y
       /\ IF Len(y) = 0 THEN ai = 0 ELSE ai \in 0..(Len(y) - 1)
       /\ (stored \in 0..(Len(y) - 1) => ai = stored)
       /\ (Len(y) > 0 /\ stored > Len(y) - 1 => ai = Len(y) - 1)

\* three records were read, the first and the third share an email and tie on
\* (lastUsed, addedAt), the second has no email; the first two are returned and the
\* stored activeIndex 5 became 1
C29_Witness_TieKeepsEarliest ==
  /\ loaded.op = "loadAccounts" /\ loaded.found
  /\ Len(ReadAccounts) = 3
  /\ ReadAccounts[1].email = "a@x" /\ ReadAccounts[3].email = "a@x"
  /\ ReadAccounts[2].email = ""
  /\ ~StampAbove(ReadAccounts[1], ReadAccounts[3])
  /\ ~StampAbove(ReadAccounts[3], ReadAccounts[1])
  /\ loaded.read.content.activeIndex = 5
  /\ [k \in 1..Len(loaded.storage.accounts) |-> loaded.storage.accounts[k].refreshToken]
       = <<"r1", "r2">>
  /\ loaded.storage.activeIndex = 1

----------------------------------------------------------------------------
(* C30 *)

\* the rate limits the claim gives a record of a version 1 or 2 document after migration
CarriedLimits(version, acc) ==
  IF version = 1
  THEN IF acc.isRateLimited /\ acc.rateLimitResetTime > now
       THEN ObjOf({<<"claude", acc.rateLimitResetTime>>,
                   <<"gemini-antigravity", acc.rateLimitResetTime>>})
       ELSE EmptyObj
  ELSE LET old == acc.rateLimitResetTimes
       IN ObjOf({<<"claude", old[k]>> : k \in {x \in DOMAIN old : x = "claude" /\ old[x] > now}}
                \cup {<<"gemini-antigravity", old[k]>> :
                        k \in {x \in DOMAIN old : x = "gemini" /\ old[x] > now}})

\* the list holds, in the document's order, the document's accounts with carried limits
MigratedFrom(accs, doc) ==
  /\ Len(accs) = Len(doc.accounts)
  /\ \A i \in 1..Len(accs) :
       /\ Identity(accs[i]) = Identity(doc.accounts[i])
       /\ accs[i].rateLimitResetTimes = CarriedLimits(doc.version, doc.accounts[i])

DistinctEmails(accs) ==
  \A i, j \in 1..Len(accs) : accs[i].email = accs[j].email => i = j

\* the record of the document with that refresh token
DocAccount(doc, token) ==
  doc.accounts[CHOOSE i \in 1..Len(doc.accounts) : doc.accounts[i].refreshToken = token]

\* C30: loadAccounts on a version 1 or 2 document returns a version 3 collection of the
\* document's accounts (all of them when no two share an email) whose rate limits are
\* the still-future ones, a v1 reset time under claude and gemini-antigravity, a v2
\* gemini limit under gemini-antigravity, a v2 claude limit under claude, never under
\* gemini-cli, and the file then holds the migrated version 3 form; a version 3
\* document is returned as stored and the file is not rewritten; any other version,
\* or no file, yields absent and leaves the file alone
C30_LoadMigrates ==
  loaded.op = "loadAccounts" =>
    LET doc == loaded.read.content
        y == loaded.storage.accounts
    IN IF loaded.read.exists /\ doc.version \in {1, 2}
       THEN /\ loaded.found
            /\ loaded.storage.version = 3
            /\ \A k \in 1..Len(y) :
                 /\ \E i \in 1..Len(doc.accounts) : Identity(y[k]) = Identity(doc.accounts[i])
                 /\ y[k].rateLimitResetTimes
                      = CarriedLimits(doc.version, DocAccount(doc, y[k].refreshToken))
                 /\ "gemini-cli" \notin DOMAIN y[k].rateLimitResetTimes
                 /\ \A key \in DOMAIN y[k].rateLimitResetTimes :
                      y[k].rateLimitResetTimes[key] > now
            /\ (DistinctEmails(doc.accounts) => MigratedFrom(y, doc))
            /\ (loaded.saved =>
                  /\ disk.exists
                  /\ disk.content.version = 3
                  /\ MigratedFrom(disk.content.accounts, doc))
            /\ (~loaded.saved => disk = loaded.read)
       ELSE IF loaded.read.exists /\ doc.version = 3
       THEN /\ loaded.found
            /\ ~loaded.saved
            /\ disk = loaded.read
            /\ loaded.storage.version = 3
            /\ \A k \in 1..Len(y) : \E i \in 1..Len(doc.accounts) : y[k] = doc.accounts[i]
       ELSE ~loaded.found /\ ~loaded.saved /\ disk = loaded.read

\* a version 1 document of two accounts was loaded, the first limited until a future
\* time and the second until a past one: the first carries the time under claude and
\* gemini-antigravity, the second carries nothing, and the file is now version 3
C30_Witness_V1Migrated ==
  /\ loaded.op = "loadAccounts" /\ loaded.found /\ loaded.saved
  /\ loaded.read.content.version = 1
  /\ Len(loaded.read.content.accounts) = 2
  /\ loaded.read.content.accounts[1].isRateLimited
  /\ loaded.read.content.accounts[1].rateLimitResetTime > now
  /\ loaded.read.content.accounts[2].isRateLimited
  /\ loaded.read.content.accounts[2].rateLimitResetTime \in 1..now
  /\ Len(loaded.storage.accounts) = 2
  /\ DOMAIN loaded.storage.accounts[1].rateLimitResetTimes = {"claude", "gemini-antigravity"}
  /\ DOMAIN loaded.storage.accounts[2].rateLimitResetTimes = {}
  /\ disk.content.version = 3

----------------------------------------------------------------------------
(* C27 *)

\* C27: whatever a reader of the accounts file reads while saveAccounts calls run is a
\* complete document (or no file), never a partially written one; and when the write
\* of the temporary file or the rename failed, the accounts file still holds what it
\* held before the write, the temporary file is gone and the call rejects
C27_AtomicWrite ==
  /\ seen.exists => seen.complete
  /\ \A p \in StoreProcs :
       spc[p] = "rethrow" => disk = prior[p] /\ tmp[p] = NoFile

----------------------------------------------------------------------------
(* C31 *)

\* C31: neither loading nor saving the store hands an error to the caller: a
\* loadFromDisk always resolves (a missing or unusable file gives an empty manager),
\* and a saveToDisk resolves even when the store lock could not be acquired
C31_StoreErrorsNeverReachCaller ==
  last.op \in {"saveToDisk", "loadFromDisk"} => last.out = "resolved"

----------------------------------------------------------------------------
(* C33 *)

\* C33: in every state of an AccountManager the account at position k of the pool has
\* index k (counting from 0), and each family pointer is -1 or a position of the pool
C33_IndicesContiguous ==
  /\ \A k \in 1..Len(accounts) : accounts[k].index = k - 1
  /\ \A f \in Families :
       currentAccountIndexByFamily[f] = -1
         \/ currentAccountIndexByFamily[f] \in 0..(Len(accounts) - 1)

----------------------------------------------------------------------------
(* C32 *)

\* the call made in this step is that query of the reservation table
Asked(op) == rlast' # rlast /\ rlast'.op = op

\* C32: while the reservation file is missing or cannot be parsed, isAccountReserved
\* answers false, getAvailableAccountIndices returns every index 0..total-1, and the
\* write of a reserveAccount creates the file with the caller's reservation in it
C32_Step ==
  resFileStatus # "json" =>
    /\ Asked("isAccountReserved") => ~rlast'.ret
    /\ Asked("getAvailableAccountIndices") =>
         rlast'.avail = [i \in 1..rlast'.total |-> i - 1]
    /\ \A p \in ResProcs :
         rpend[p].op = "write" /\ rpend[p].target # -1 /\ rpend'[p].op = "none"
           /\ alive'[p] =>
           /\ resFileStatus' = "json"
           /\ rpend[p].target \in DOMAIN resFile'
           /\ resFile'[rpend[p].target].pid = p

C32_ReservationErrorsFailOpen == [][C32_Step]_vars

\* both accounts were reported available from a file that cannot be parsed
C32_Witness_AllAvailable ==
  /\ rlast.op = "getAvailableAccountIndices"
  /\ rlast.total = 2
  /\ rlast.avail = <<0, 1>>
  /\ resFileStatus = "unparseable"

----------------------------------------------------------------------------
(* C34 *)

C34_Step ==
  Did("select") =>
    LET family == last'.family
        model == last'.model
        Y == last'.ret
        posY == IndexOfAccount(accounts', Y)
    IN /\ Y # 0 => /\ EligibleNow(accounts[IndexOfAccount(accounts, Y)], family, model)
                   /\ getCurrentAccountForFamily(Manager', family) = posY
                   /\ accounts'[posY].lastUsed = now
       /\ Y = 0 <=> ~\E i \in 1..Len(accounts) : EligibleNow(accounts[i], family, model)

\* C34: under every strategy getCurrentOrNextForFamily returns an account only if it
\* is neither rate-limited for the family nor cooling down at that moment, returns
\* null exactly when no account of the pool is, and the returned account is then the
\* family's current account with lastUsed = now
C34_SelectionSoundComplete == [][C34_Step]_vars

----------------------------------------------------------------------------
(* C35 *)

\* the models a request may name: none, the marked one, another one
C35_QueryModels == {NoModel, "m1", "m2"}

C35_Step ==
  Did("markRateLimited") =>
    LET pos == IndexOfAccount(accounts, last'.ret)
        key == getQuotaKey(last'.family, last'.headerStyle, last'.model)
        a == accounts[pos]
        b == accounts'[pos]
    IN /\ Len(accounts') = Len(accounts)
       /\ \A i \in 1..Len(accounts) : i # pos => accounts'[i] = accounts[i]
       /\ b = [a EXCEPT !.rateLimitResetTimes = b.rateLimitResetTimes]
       /\ DOMAIN b.rateLimitResetTimes = DOMAIN a.rateLimitResetTimes \cup {key}
       /\ b.rateLimitResetTimes[key] = now + last'.arg
       /\ \A k \in DOMAIN a.rateLimitResetTimes \ {key} :
            b.rateLimitResetTimes[k] = a.rateLimitResetTimes[k]
       /\ cursor' = cursor
       /\ currentAccountIndexByFamily' = currentAccountIndexByFamily
       /\ \A f \in Families, hs \in HeaderStyles, m \in C35_QueryModels :
            (key \notin {getQuotaKey(f, hs, m), getQuotaKey(f, hs, NoModel)}) =>
              (isRateLimitedForHeaderStyle(b, f, hs, m)
                 <=> isRateLimitedForHeaderStyle(a, f, hs, m))
       /\ (last'.family = "gemini" /\ last'.model = NoModel /\ last'.arg > 0) =>
            \A m \in C35_QueryModels :
              isRateLimitedForHeaderStyle(b, "gemini", last'.headerStyle, m)

\* C35: markRateLimited(a, dt, family, headerStyle, model) writes now + dt under the
\* exact quota key of (family, headerStyle, model) on account a and changes nothing
\* else: no other key, field or account, so a request of the other family, of the
\* other Gemini pool or of another model of the same pool is limited exactly as
\* before, while a pool-wide limit (no model, dt > 0) limits every model of its pool
C35_MarkRateLimitedFrame == [][C35_Step]_vars

\* a model-specific limit on the antigravity pool left the pool, the other model and
\* the other pool of that account unlimited
C35_Witness_ModelLimitOnly ==
  /\ last.op = "markRateLimited" /\ last.family = "gemini" /\ last.model = "m1"
  /\ \E pos \in 1..Len(accounts) :
       /\ accounts[pos].id = last.ret
       /\ isRateLimitedForHeaderStyle(accounts[pos], "gemini", "antigravity", "m1")
       /\ ~isRateLimitedForHeaderStyle(accounts[pos], "gemini", "antigravity", "m2")
       /\ ~isRateLimitedForHeaderStyle(accounts[pos], "gemini", "antigravity", NoModel)
       /\ ~isRateLimitedForHeaderStyle(accounts[pos], "gemini", "gemini-cli", "m1")

----------------------------------------------------------------------------
(* C36 *)

\* C36: whenever getCurrentOrNextForFamily(family, model) returns null on a pool that
\* is not empty, getMinWaitTimeForFamily(family, model) at the same moment is > 0
C36_NullSelectionHasPositiveWait ==
  \A r \in Requests, s \in Strategies :
    (/\ Len(accounts) > 0
     /\ getCurrentOrNextForFamily(Manager, r[1], r[2], s, r[3], FALSE).pos = 0)
      => getMinWaitTimeForFamily(accounts, r[1], r[2]).ret > 0

----------------------------------------------------------------------------
(* C37 *)

\* the refresh tokens of the records in the store file
TokensOnDisk ==
  IF disk.exists
  THEN {disk.content.accounts[i].refreshToken : i \in 1..Len(disk.content.accounts)}
  ELSE {}

\* C37: after removeAccount(a) followed by a successful saveToDisk the store file holds
\* no record with the refresh token of a
C37_RemovedAccountLeavesDisk ==
  (last.op = "saveToDisk" /\ last.ok /\ last.prev = 1) => TokenAt[last.ret] \notin TokensOnDisk

----------------------------------------------------------------------------
(* C38 *)

\* the entries of rateLimitResetTimes that have not expired
Unexpired(account) ==
  [k \in {key \in DOMAIN account.rateLimitResetTimes :
            now < account.rateLimitResetTimes[key]} |-> account.rateLimitResetTimes[k]]

\* loadFromDisk directly after a successful saveToDisk, the other process not having
\* touched the store
C38_RoundTrip ==
  /\ last.op = "saveToDisk" /\ last.ok
  /\ steps' = steps + 1 /\ last'.op = "loadFromDisk"
  /\ spc[2] = "access"

C38_Step ==
  C38_RoundTrip =>
    /\ Len(accounts') = Len(accounts)
    /\ \A i \in 1..Len(accounts) :
         /\ accounts'[i].id = accounts[i].id
         /\ Unexpired(accounts'[i]) = Unexpired(accounts[i])
         /\ CoolingNow(accounts[i]) =>
              accounts'[i].coolingDownUntil = accounts[i].coolingDownUntil
    /\ \A f \in Families :
         currentAccountIndexByFamily[f] \in 0..(Len(accounts) - 1) =>
           currentAccountIndexByFamily'[f] = currentAccountIndexByFamily[f]

\* C38: with no other writer, saveToDisk followed by loadFromDisk gives a manager with
\* the same accounts in the same order, the same unexpired rateLimitResetTimes and
\* cooldown deadline of each account, and the same current account of each family
\* whose pointer was a valid index
C38_SaveLoadRoundTrip == [][C38_Step]_vars

----------------------------------------------------------------------------
(* C39 *)

\* the query of this step is isAccountReserved called by process p
QueryBy(p) == Asked("isAccountReserved") /\ rlast'.p = p

\* process p writes the reservation file in this step
WriteBy(p) == rpend[p].op = "write" /\ rpend'[p].op = "none" /\ alive'[p]

\* what the query of this step returns when it works on the content of the file
FromFile(p) == isAccountReserved(p, ParsedReservations, rlast'.index, rlast'.family)

C39_Step ==
  \A p \in ResProcs :
    /\ lastFileRead'[p] # lastFileRead[p] =>
         (~cachedReservations[p].valid \/ now - lastFileRead[p] >= CACHE_TTL_MS)
    /\ QueryBy(p) =>
         IF cachedReservations[p].valid /\ now - lastReadTime[p] < CACHE_TTL_MS
         THEN rlast'.table = cachedReservations[p].data
         ELSE rlast'.table = ParsedReservations /\ rlast'.ret = FromFile(p)
    /\ WriteBy(p) =>
         /\ resFile' = rpend[p].data
         /\ cachedReservations'[p] = [valid |-> TRUE, data |-> resFile']
         /\ lastReadTime'[p] = now

\* C39 (amended): readReservations reads the file only when the process has no cached
\* table or 2 s (CACHE_TTL_MS) or more have passed since it last read or wrote the
\* file, so without invalidation two file reads of a process are at least 2 s apart; a
\* query made 2 s or more after the process's previous file read or own write works on
\* the content of the file and so observes another process's reservation that is in
\* it; a write of the process leaves its cache equal to what it wrote, which its own
\* following queries use
C39_CacheAtMostTtlStale == [][C39_Step]_vars

C39_OriginalStep ==
  \A p \in ResProcs :
    (QueryBy(p) /\ now - lastFileRead[p] >= CACHE_TTL_MS) => rlast'.ret = FromFile(p)

\* C39 as stated: a query made 2 s or more after the observer's previous file read
\* observes a reservation of another process that is in the file
C39_Original_SeenAfterFileRead == [][C39_OriginalStep]_vars

\* process 1, whose cached table was 2 s old and did not hold it, re-read the file and
\* found the reservation of process 2
C39_Witness_SeenAfterTtl ==
  /\ rlast.op = "isAccountReserved" /\ rlast.p = 1 /\ rlast.ret
  /\ rlast.index \in DOMAIN rlast.table /\ rlast.table[rlast.index].pid = 2
  /\ lastFileRead[1] = rlast.at
  /\ rlast.at >= 1 + CACHE_TTL_MS
  /\ myReservations[1] # {}

----------------------------------------------------------------------------
(* C40 *)

\* a save that is over: written, rejected, or its process died
Ended == {"done", "failed", "crashed"}

\* lockfile.lock settles in this step for process p
LockSettles(p) == spc[p] = "lock" /\ spc'[p] # "lock"

C40_Held ==
  \A p \in StoreProcs :
    /\ spc[p] \in Locked => lockHolder = p
    /\ spc[p] \in {"access", "create", "lock", "done", "failed"} => lockHolder # p
    /\ lck.tries[p] <= LOCK_OPTIONS.retries

C40_Step ==
  \A p \in StoreProcs :
    LockSettles(p) =>
      /\ spc'[p] = "failed" => (lck.tries[p] = LOCK_OPTIONS.retries /\ lockHolder # 0)
      /\ (lockHolder \in lck.dead /\ now - lck.mtime > LOCK_OPTIONS.stale) =>
           (spc'[p] = "read" /\ lockHolder' = p)

\* C40: a save holds the lock from the moment lockfile.lock resolves until release(),
\* through the read, the merge and the write, and no longer holds it once it has
\* resolved or rejected; lockfile.lock rejects only after 5 retries against a held
\* lock, and takes a lock whose holder died and that was last touched more than 10 s
\* ago; every save ends, written or rejected
C40_LockHeldReleasedBounded ==
  /\ []C40_Held
  /\ [][C40_Step]_vars
  /\ \A p \in StoreProcs : (spc[p] \notin Ended) ~> (spc[p] \in Ended)

\* a save took over the lock of a process that died while holding it and was written
C40_Witness_StaleLockTaken ==
  /\ spc[2] = "crashed"
  /\ spc[1] = "done"
  /\ lck.mtime > 1 + LOCK_OPTIONS.stale

====
